---- MODULE Spec2Model ----
(***************************************************************************)
(* Model of the polymarket arbitrage bot: the order executors (the atomic  *)
(* multi-leg executor and the sequential executor), the risk manager and   *)
(* the controller's processOpportunity.                                    *)
(*                                                                         *)
(* Units.  Prices are integers in units of 0.00001 (so 0.49 is 49000 and   *)
(* the clamp range [0.001, 0.999] is [100, 99900]); the prices fed to the  *)
(* executor are multiples of 0.001, which keeps price * (1 +- slippage%)   *)
(* exact.  Money of the risk manager (capital, balance, profit, P&L) is an *)
(* integer number of currency units.  The clock counts hours.              *)
(* The detector's quotes are integers in mills (0.001, the exchange's      *)
(* finest tick); a mid-price (bid + ask) / 2 is kept doubled, in           *)
(* half-mills, and so are the samples of PriceHistory; the numbers an      *)
(* opportunity of the detector carries are in 1e-5 currency units, and its *)
(* profitPercentage is the fraction pctNum / pctDen.  PriceHistory's clock *)
(* counts minutes.                                                         *)
(***************************************************************************)
EXTENDS Integers, Sequences, FiniteSets, TLC

VARIABLES
  \* ---- OrderExecutor (one call of executeTrades) and the exchange ----
  epc,          \* position inside executeTrades
  trades,       \* the batch handed to executeTrades
  books,        \* books[i]: what getOrderBook answers for leg i's token
  limitPrices,  \* limitPrices of the legs validated so far
  orders,       \* orders[i]: outcome of createOrder for leg i
  posts,        \* posts[i]: outcome of postOrder for leg i
  toCancel,     \* successfulOrders still to be cancelled by the rollback
  results,      \* the OrderResult list the call returned
  exchange,     \* exchange[i]: "none" | "open" | "cancelled"
  createCalls,  \* number of clobClient.createOrder calls of this batch
  postCalls,    \* number of clobClient.postOrder calls of this batch
  cancelReqs,   \* cancelReqs[i]: cancelOrder requests for leg i's order id
  \* ---- RiskManager ----
  cfg,          \* constructor parameters
  positions,    \* open positions
  dailyPnL,
  dailyStartTime,
  stats,
  now,          \* Date.now(), in hours
  lastEval,     \* the last evaluateOpportunity call: input and result
  lastStop,     \* the last shouldEmergencyStop call: its result
  \* ---- ArbitrageBot.processOpportunity ----
  bpc,          \* position inside processOpportunity
  cur,          \* the opportunity being processed
  balance,      \* the balance fetched for it
  evaluation,   \* what evaluateOpportunity returned for it
  execCalls,    \* executeTrades calls made for it
  recordCalls,  \* recordTrade calls made for it
  \* ---- controller: the scan loop ----
  isRunning,    \* ArbitrageBot.isRunning
  timer,        \* the setInterval timer is armed
  isScanning,   \* the reentrancy flag of startScanLoop
  passes,       \* passes[p]: the scan pass in slot p, suspended at an await
  lastTick,     \* what the last invocation of scan did at its entry
  \* ---- ArbitrageDetector and its PriceHistory ----
  minProfitThreshold,  \* constructor parameter, in tenths of a percent
  enabledStrategies,   \* constructor parameter
  opportunities,       \* ArbitrageDetector.opportunities
  history,             \* PriceHistory.history: token id -> samples
  minute,              \* Date.now() as PriceHistory reads it, in minutes
  scanned,             \* the markets and quotes the last scan was given
  \* ---- MarketDataService: the order-book cache ----
  orderBookCache,      \* token id -> cached entry
  readers,             \* readers[r]: a getOrderBook call, suspended at an await
  cacheNow,            \* Date.now() as getOrderBook reads it, in ms
  marketFetch,         \* the getActiveMarkets call: position, locals, result
  \* ---- OrderExecutor: the L2 session ----
  auth                 \* isAuthenticated and the authenticateForTrading call

execVars == <<epc, trades, books, limitPrices, orders, posts, toCancel, results,
              exchange, createCalls, postCalls, cancelReqs>>
riskVars == <<cfg, positions, dailyPnL, dailyStartTime, stats, now, lastEval,
             lastStop>>
botVars  == <<bpc, cur, balance, evaluation, execCalls, recordCalls>>
scanVars == <<isRunning, timer, isScanning, passes, lastTick>>
detVars  == <<minProfitThreshold, enabledStrategies, opportunities, history,
             minute, scanned>>
mdsVars  == <<orderBookCache, readers, cacheNow, marketFetch, auth>>
vars     == <<execVars, riskVars, botVars, scanVars, detVars, mdsVars>>

----------------------------------------------------------------------------
\* Bounds of the model.

MaxLegs == 2
MaxTrades == 2
MaxPositions == 2
MaxClock == 24
MaxPasses == 2
MaxOpps == 1
MaxSamples == 10
MaxScans == 16
MaxMinute == 40

----------------------------------------------------------------------------
\* Types (src/src/types/index.ts).

OrderSide == {"BUY", "SELL"}
OrderStatus == {"PENDING", "FILLED", "PARTIALLY_FILLED", "CANCELLED", "FAILED"}
RiskLevel == {"LOW", "MEDIUM", "HIGH"}

Trade(tokenId, side, price, amount) ==
  [marketId |-> "M", tokenId |-> tokenId, side |-> side, type |-> "MARKET",
   price |-> price, amount |-> amount]

NoError == <<"", 0>>

OrderResult(orderId, status, filledAmount, averagePrice, error) ==
  [orderId |-> orderId, status |-> status, filledAmount |-> filledAmount,
   averagePrice |-> averagePrice, error |-> error]

Level(price, size) == [price |-> price, size |-> size]

\* getOrderBook answers null (no data) or an OrderBook.
NullBook == [present |-> FALSE, asks |-> <<>>, bids |-> <<>>]
OrderBook(asks, bids) == [present |-> TRUE, asks |-> asks, bids |-> bids]

----------------------------------------------------------------------------
\* Pure helpers of the atomic OrderExecutor.

maxSlippage == 1

NaN == -999999999

Min(a, b) == IF a < b THEN a ELSE b
Max(a, b) == IF a > b THEN a ELSE b

clampPrice(price) ==
  IF price = NaN THEN 0 ELSE Min(99900, Max(100, price))

applySlippageLimit(trade) ==
  LET base == clampPrice(trade.price)
  IN  IF trade.side = "BUY"
        THEN clampPrice((base * (100 + maxSlippage)) \div 100)
        ELSE clampPrice((base * (100 - maxSlippage)) \div 100)

RECURSIVE SumSizes(_)
SumSizes(levels) ==
  IF levels = <<>> THEN 0 ELSE Head(levels).size + SumSizes(Tail(levels))

\* Mutant of checkFillable: a level priced exactly at the limit is not counted.
checkFillableStrict(trade, limitPrice, book) ==
  IF ~book.present THEN FALSE
  ELSE IF trade.side = "BUY"
    THEN SumSizes(SelectSeq(book.asks, LAMBDA l : l.price < limitPrice))
           >= trade.amount
    ELSE SumSizes(SelectSeq(book.bids, LAMBDA l : l.price > limitPrice))
           >= trade.amount

checkFillable(trade, limitPrice, book) ==
  IF ~book.present THEN FALSE
  ELSE IF trade.side = "BUY"
    THEN SumSizes(SelectSeq(book.asks, LAMBDA l : l.price <= limitPrice))
           >= trade.amount
    ELSE SumSizes(SelectSeq(book.bids, LAMBDA l : l.price >= limitPrice))
           >= trade.amount

\* The raw status values the exchange may answer; NonStringStatus stands for
\* a status that is not a string, such as the number 400 of an error payload
\* (status?.toUpperCase() then throws a TypeError).
RawStatuses == {"LIVE", "matched", "PARTIAL", "CANCELLED", "FAILED", "DELAYED"}
NonStringStatus == "<number>"

toUpperCase(s) == IF s = "matched" THEN "MATCHED" ELSE s

mapOrderStatus(status) ==
  LET u == toUpperCase(status)
  IN  CASE u = "LIVE"      -> "PENDING"
        [] u = "MATCHED"   -> "FILLED"
        [] u = "PARTIAL"   -> "PARTIALLY_FILLED"
        [] u = "CANCELLED" -> "CANCELLED"
        [] u = "FAILED"    -> "FAILED"
        [] OTHER           -> "PENDING"

----------------------------------------------------------------------------
\* The inputs the model draws from.

TradeSet ==
  { Trade("YES", "BUY", 49000, 1), Trade("NO", "SELL", 50000, 2) }

RECURSIVE SeqsUpTo(_, _)
SeqsUpTo(S, n) ==
  IF n = 0 THEN { <<>> }
  ELSE LET shorter == SeqsUpTo(S, n - 1)
       IN  shorter \cup { Append(s, x) : s \in shorter, x \in S }

Batches == SeqsUpTo(TradeSet, MaxLegs)

BookSet ==
  { NullBook,
    OrderBook(<<Level(49000, 5)>>, <<Level(50000, 5)>>),
    OrderBook(<<Level(49000, 1), Level(60000, 5)>>, <<Level(48000, 1)>>) }

\* What one postOrder call can do: answer {orderID, status}, or throw (the
\* order may or may not have reached the exchange).  An order the exchange
\* took (any status but CANCELLED and FAILED) carries the order id of its
\* leg; 0 is the empty order id.
Accepts(raw) == raw \in RawStatuses \ {"CANCELLED", "FAILED"}

PostOutcomes(i) ==
  { [kind |-> "ok", raw |-> r, orderID |-> IF r = "FAILED" THEN 0 ELSE i,
     accepted |-> Accepts(r)] : r \in RawStatuses }
  \cup { [kind |-> "ok", raw |-> NonStringStatus, orderID |-> 0, accepted |-> FALSE] }
  \cup { [kind |-> "threw", raw |-> "", orderID |-> 0, accepted |-> a] :
           a \in BOOLEAN }

InFlight == [kind |-> "inflight", raw |-> "", orderID |-> 0, accepted |-> FALSE]
NotPosted == [kind |-> "none", raw |-> "", orderID |-> 0, accepted |-> FALSE]

Legs == 1 .. Len(trades)

----------------------------------------------------------------------------
\* executeTrades of the atomic executor.

ErrPrecheck(i) == <<"PRECHECK_DEPTH", i>>
ErrCreateNull(i) == <<"CREATE_NULL", i>>
ErrCreateThrew(i) == <<"CREATE_THREW", i>>
ErrPostThrew(i) == <<"POST_THREW", i>>
ErrStatusMap(i) == <<"STATUS_NOT_A_STRING", i>>
ErrRollback == <<"ATOMIC_ROLLBACK", 0>>

\* Mutant of CatchAll: the message of the exception is not attached.
CatchAllDropsMessage(err) ==
  [i \in 1 .. Len(trades) |-> OrderResult(0, "FAILED", 0, 0, NoError)]

\* The catch block: one FAILED result per input leg, carrying the message.
CatchAll(err) ==
  [i \in 1 .. Len(trades) |-> OrderResult(0, "FAILED", 0, 0, err)]

ResetCall(batch, bks) ==
  /\ trades' = batch
  /\ books' = bks
  /\ limitPrices' = <<>>
  /\ orders' = [i \in 1 .. Len(batch) |-> "none"]
  /\ posts' = [i \in 1 .. Len(batch) |-> NotPosted]
  /\ toCancel' = <<>>
  /\ exchange' = [i \in 1 .. Len(batch) |-> "none"]
  /\ createCalls' = 0
  /\ postCalls' = 0
  /\ cancelReqs' = [i \in 1 .. Len(batch) |-> 0]

\* Entry: an empty batch returns [] at once; otherwise the pre-validation
\* loop starts.
EnterExecuteTrades(batch) ==
  /\ ResetCall(batch, <<>>)
  /\ IF Len(batch) = 0
       THEN epc' = "returned" /\ results' = <<>>
       ELSE epc' = "precheck" /\ results' = <<>>

\* Step 1: one iteration of the pre-validation loop, which awaits
\* getOrderBook for the leg's token (book is its answer).  The first leg that
\* is not fillable throws; when the last leg passes, step 2 issues
\* createOrder for every leg at once.
PreCheck(book) ==
  /\ epc = "precheck"
  /\ books' = Append(books, book)
  /\ LET i == Len(limitPrices) + 1
         limitPrice == applySlippageLimit(trades[i])
         fillable == checkFillable(trades[i], limitPrice, book)
     IN  IF ~fillable
           THEN /\ results' = CatchAll(ErrPrecheck(i))
                /\ epc' = "returned"
                /\ UNCHANGED <<limitPrices, orders, createCalls>>
           ELSE /\ limitPrices' = Append(limitPrices, limitPrice)
                /\ IF i = Len(trades)
                     THEN /\ epc' = "create"
                          /\ orders' = [j \in Legs |-> "pending"]
                          /\ createCalls' = Len(trades)
                     ELSE UNCHANGED <<epc, orders, createCalls>>
                /\ UNCHANGED results
  /\ UNCHANGED <<trades, posts, toCancel, exchange, postCalls, cancelReqs>>
  /\ UNCHANGED <<riskVars, botVars, scanVars, detVars, mdsVars>>

FirstNull(os) == CHOOSE i \in DOMAIN os : os[i] = "null" /\ \A j \in 1 .. (i - 1) : os[j] # "null"

\* Step 2: one createOrder promise settles.  A rejection rejects Promise.all;
\* once all have settled, a null handle throws, otherwise step 3 issues
\* postOrder for every order at once.
CreateResolve(i, out) ==
  /\ epc = "create"
  /\ i \in Legs
  /\ orders[i] = "pending"
  /\ out \in {"handle", "null", "threw"}
  /\ LET os == [orders EXCEPT ![i] = out]
     IN  /\ orders' = os
         /\ IF out = "threw"
              THEN /\ results' = CatchAll(ErrCreateThrew(i))
                   /\ epc' = "returned"
                   /\ UNCHANGED <<posts, postCalls>>
              ELSE IF \E j \in Legs : os[j] = "pending"
                THEN UNCHANGED <<results, epc, posts, postCalls>>
                ELSE IF \E j \in Legs : os[j] = "null"
                  THEN /\ results' = CatchAll(ErrCreateNull(FirstNull(os)))
                       /\ epc' = "returned"
                       /\ UNCHANGED <<posts, postCalls>>
                  ELSE /\ epc' = "post"
                       /\ posts' = [j \in Legs |-> InFlight]
                       /\ postCalls' = Len(trades)
                       /\ UNCHANGED results
  /\ UNCHANGED <<trades, books, limitPrices, toCancel, exchange, createCalls, cancelReqs>>
  /\ UNCHANGED <<riskVars, botVars, scanVars, detVars, mdsVars>>

\* Step 3: one postOrder promise settles.  The exchange keeps the order if it
\* took it.  A rejection rejects Promise.all and the catch block returns at
\* once; the other requests stay in flight and still settle afterwards.
PostResolve(i, out) ==
  /\ epc \in {"post", "returned"}
  /\ i \in Legs
  /\ posts[i].kind = "inflight"
  /\ out \in PostOutcomes(i)
  /\ posts' = [posts EXCEPT ![i] = out]
  /\ exchange' = [exchange EXCEPT ![i] = IF out.accepted THEN "open" ELSE @]
  /\ IF epc = "post" /\ out.kind = "threw"
       THEN /\ results' = CatchAll(ErrPostThrew(i))
            /\ epc' = "returned"
       ELSE UNCHANGED <<results, epc>>
  /\ UNCHANGED <<trades, books, limitPrices, orders, toCancel, createCalls,
                 postCalls, cancelReqs>>
  /\ UNCHANGED <<riskVars, botVars, scanVars, detVars, mdsVars>>

MappedResults ==
  [i \in Legs |->
     OrderResult(posts[i].orderID, mapOrderStatus(posts[i].raw),
                 trades[i].amount, limitPrices[i], NoError)]

Indices(n) == [i \in 1 .. n |-> i]

\* r.status === FILLED || r.status === PENDING, and a non-empty order id.
IsSuccessfulOrder(r) == r.status \in {"FILLED", "PENDING"}

SuccessfulOrders(rs) ==
  SelectSeq(Indices(Len(rs)),
            LAMBDA i : IsSuccessfulOrder(rs[i]) /\ rs[i].orderId # 0)

FirstBadStatus == CHOOSE i \in Legs :
  posts[i].raw = NonStringStatus /\ \A j \in 1 .. (i - 1) : posts[j].raw # NonStringStatus

\* Step 4: Promise.all of the posts resolved: map the results (mapOrderStatus
\* throws on a status that is no string), and roll back if any leg FAILED.
PostAllResolved ==
  /\ epc = "post"
  /\ \A i \in Legs : posts[i].kind = "ok"
  /\ IF \E i \in Legs : posts[i].raw = NonStringStatus
       THEN /\ results' = CatchAll(ErrStatusMap(FirstBadStatus))
            /\ epc' = "returned"
            /\ UNCHANGED toCancel
       ELSE LET rs == MappedResults
            IN  IF \E i \in Legs : rs[i].status = "FAILED"
                  THEN /\ results' = rs
                       /\ toCancel' = SuccessfulOrders(rs)
                       /\ epc' = "rollback"
                  ELSE /\ results' = rs
                       /\ epc' = "returned"
                       /\ UNCHANGED toCancel
  /\ UNCHANGED <<trades, books, limitPrices, orders, posts, exchange, createCalls,
                 postCalls, cancelReqs>>
  /\ UNCHANGED <<riskVars, botVars, scanVars, detVars, mdsVars>>

\* cancelOrder(orderId): true when the exchange cancelled, false (after
\* catching) when the request threw; the rollback loop ignores the answer.
CancelOrder(ok) ==
  /\ epc = "rollback"
  /\ toCancel # <<>>
  /\ ok \in BOOLEAN
  /\ LET i == Head(toCancel)
     IN  /\ cancelReqs' = [cancelReqs EXCEPT ![i] = @ + 1]
         /\ exchange' = [exchange EXCEPT ![i] = IF ok THEN "cancelled" ELSE @]
  /\ toCancel' = Tail(toCancel)
  /\ UNCHANGED <<epc, trades, books, limitPrices, orders, posts, results,
                 createCalls, postCalls>>
  /\ UNCHANGED <<riskVars, botVars, scanVars, detVars, mdsVars>>

MarkRolledBack(rs) ==
  [i \in DOMAIN rs |-> [rs[i] EXCEPT !.status = "FAILED", !.error = ErrRollback]]

RollbackReturn ==
  /\ epc = "rollback"
  /\ toCancel = <<>>
  /\ results' = MarkRolledBack(results)
  /\ epc' = "returned"
  /\ UNCHANGED <<trades, books, limitPrices, orders, posts, toCancel, exchange,
                 createCalls, postCalls, cancelReqs>>
  /\ UNCHANGED <<riskVars, botVars, scanVars, detVars, mdsVars>>

----------------------------------------------------------------------------
\* executeTrades of the sequential executor (src/trading/OrderExecutor.ts):
\* executeTrade leg by leg, stopping after the first FAILED leg.  It reads no
\* order book and cancels nothing.

ErrSeqCreateNull == <<"CREATE_NULL", 0>>

\* The catch block of executeTrade: one FAILED result for that leg.
SeqFailed(err) == OrderResult(0, "FAILED", 0, 0, err)

SeqEnterExecuteTrades(batch, bks) ==
  /\ ResetCall(batch, bks)
  /\ results' = <<>>
  /\ epc' = IF Len(batch) = 0 THEN "returned" ELSE "seqCreate"

\* executeTrade, first await: createOrder for the next leg.
SeqCreateOrder(out) ==
  /\ epc = "seqCreate"
  /\ out \in {"handle", "null", "threw"}
  /\ LET i == Len(results) + 1
     IN  /\ orders' = [orders EXCEPT ![i] = out]
         /\ createCalls' = createCalls + 1
         /\ IF out = "handle"
              THEN epc' = "seqPost" /\ UNCHANGED results
              ELSE /\ results' = Append(results,
                        SeqFailed(IF out = "null" THEN ErrSeqCreateNull
                                                  ELSE ErrCreateThrew(i)))
                   /\ epc' = "returned"
  /\ UNCHANGED <<trades, books, limitPrices, posts, toCancel, exchange, postCalls,
                 cancelReqs>>
  /\ UNCHANGED <<riskVars, botVars, scanVars, detVars, mdsVars>>

\* executeTrade, second await: postOrder, then the result of the leg; the
\* loop of executeTrades breaks on a FAILED leg and otherwise goes on.
SeqPostOrder(out) ==
  /\ epc = "seqPost"
  /\ LET i == Len(results) + 1
         r == IF out.kind = "threw" THEN SeqFailed(ErrPostThrew(i))
              ELSE IF out.raw = NonStringStatus THEN SeqFailed(ErrStatusMap(i))
              ELSE OrderResult(out.orderID, mapOrderStatus(out.raw),
                               trades[i].amount, trades[i].price, NoError)
     IN  /\ out \in PostOutcomes(i)
         /\ posts' = [posts EXCEPT ![i] = out]
         /\ postCalls' = postCalls + 1
         /\ exchange' = [exchange EXCEPT ![i] = IF out.accepted THEN "open" ELSE @]
         /\ results' = Append(results, r)
         /\ epc' = IF r.status = "FAILED" \/ i = Len(trades)
                     THEN "returned" ELSE "seqCreate"
  /\ UNCHANGED <<trades, books, limitPrices, orders, toCancel, createCalls,
                 cancelReqs>>
  /\ UNCHANGED <<riskVars, botVars, scanVars, detVars, mdsVars>>

----------------------------------------------------------------------------
\* RiskManager (src/src/trading/RiskManager.ts).

\* Constructor parameters.  validateConfig admits only
\* 0 < minPositionSize <= maxPositionSize.
Configs ==
  [maxPositionSize : {3}, minPositionSize : {2}, dailyMaxLoss : {4, 5},
   maxConcurrentPositions : {1, 2}, enableRiskManagement : BOOLEAN]

Fraction(num, den) == [num |-> num, den |-> den]

InitialStats ==
  [totalTrades |-> 0, successfulTrades |-> 0, failedTrades |-> 0,
   totalProfit |-> 0, totalLoss |-> 0, netProfit |-> 0,
   winRate |-> Fraction(0, 1), averageProfit |-> Fraction(0, 1),
   largestProfit |-> 0, largestLoss |-> 0, dailyPnL |-> 0]

Opportunity(requiredCapital, profitPercentage, risk, legs) ==
  [requiredCapital |-> requiredCapital, profitPercentage |-> profitPercentage,
   expectedProfit |-> IF profitPercentage >= 5 THEN 2 ELSE 1,
   risk |-> risk, trades |-> legs]

\* The opportunities and balances the model draws from: capital below the
\* minimum size (1), within the limits (2) and above the maximum size (4);
\* profit percentage below and at the high-risk floor; signal-only (no legs)
\* and executable.
Opportunities ==
  { Opportunity(c, pr[1], pr[2], legs) :
      c \in {1, 2, 4}, pr \in { <<4, "LOW">>, <<4, "HIGH">>, <<5, "HIGH">> },
      legs \in { <<>>, <<Trade("YES", "BUY", 49000, 1), Trade("NO", "BUY", 50000, 1)>> } }

Balances == {1, 5}

Abs(x) == IF x < 0 THEN 0 - x ELSE x

Rejected(reason) == [approved |-> FALSE, reason |-> reason]
Approved(adjustedSize) == [approved |-> TRUE, adjustedSize |-> adjustedSize]

\* Mutant of evaluateOpportunity: the balance check comes before the
\* daily-loss check.
evaluateBalanceFirst(opportunity, usdc) ==
  IF Len(opportunity.trades) = 0 THEN Rejected("SIGNAL_ONLY")
  ELSE IF ~cfg.enableRiskManagement THEN Approved(opportunity.requiredCapital)
  ELSE IF usdc < opportunity.requiredCapital THEN Rejected("INSUFFICIENT_BALANCE")
  ELSE IF Abs(dailyPnL) >= cfg.dailyMaxLoss THEN Rejected("DAILY_MAX_LOSS")
  ELSE IF opportunity.requiredCapital > cfg.maxPositionSize
    THEN Approved(cfg.maxPositionSize)
  ELSE IF opportunity.requiredCapital < cfg.minPositionSize
    THEN Rejected("BELOW_MIN_SIZE")
  ELSE IF Len(positions) >= cfg.maxConcurrentPositions
    THEN Rejected("MAX_POSITIONS")
  ELSE IF opportunity.risk = "HIGH" /\ opportunity.profitPercentage < 5
    THEN Rejected("HIGH_RISK_PROFIT")
  ELSE Approved(opportunity.requiredCapital)

\* Mutant of evaluateOpportunity: the daily-loss check looks at losses only
\* (no Math.abs).
evaluateLossOnly(opportunity, usdc) ==
  IF Len(opportunity.trades) = 0 THEN Rejected("SIGNAL_ONLY")
  ELSE IF ~cfg.enableRiskManagement THEN Approved(opportunity.requiredCapital)
  ELSE IF 0 - dailyPnL >= cfg.dailyMaxLoss THEN Rejected("DAILY_MAX_LOSS")
  ELSE IF usdc < opportunity.requiredCapital THEN Rejected("INSUFFICIENT_BALANCE")
  ELSE IF opportunity.requiredCapital > cfg.maxPositionSize
    THEN Approved(cfg.maxPositionSize)
  ELSE IF opportunity.requiredCapital < cfg.minPositionSize
    THEN Rejected("BELOW_MIN_SIZE")
  ELSE IF Len(positions) >= cfg.maxConcurrentPositions
    THEN Rejected("MAX_POSITIONS")
  ELSE IF opportunity.risk = "HIGH" /\ opportunity.profitPercentage < 5
    THEN Rejected("HIGH_RISK_PROFIT")
  ELSE Approved(opportunity.requiredCapital)

\* Mutant of evaluateOpportunity: an oversize opportunity is approved at its
\* full required capital (the cap is not applied).
evaluateUncapped(opportunity, usdc) ==
  IF Len(opportunity.trades) = 0 THEN Rejected("SIGNAL_ONLY")
  ELSE IF ~cfg.enableRiskManagement THEN Approved(opportunity.requiredCapital)
  ELSE IF Abs(dailyPnL) >= cfg.dailyMaxLoss THEN Rejected("DAILY_MAX_LOSS")
  ELSE IF usdc < opportunity.requiredCapital THEN Rejected("INSUFFICIENT_BALANCE")
  ELSE IF opportunity.requiredCapital > cfg.maxPositionSize
    THEN Approved(opportunity.requiredCapital)
  ELSE IF opportunity.requiredCapital < cfg.minPositionSize
    THEN Rejected("BELOW_MIN_SIZE")
  ELSE IF Len(positions) >= cfg.maxConcurrentPositions
    THEN Rejected("MAX_POSITIONS")
  ELSE IF opportunity.risk = "HIGH" /\ opportunity.profitPercentage < 5
    THEN Rejected("HIGH_RISK_PROFIT")
  ELSE Approved(opportunity.requiredCapital)

\* Mutant of evaluateOpportunity: the risk-management switch is read after
\* the daily-loss and balance checks.
evaluateSwitchLate(opportunity, usdc) ==
  IF Len(opportunity.trades) = 0 THEN Rejected("SIGNAL_ONLY")
  ELSE IF Abs(dailyPnL) >= cfg.dailyMaxLoss THEN Rejected("DAILY_MAX_LOSS")
  ELSE IF usdc < opportunity.requiredCapital THEN Rejected("INSUFFICIENT_BALANCE")
  ELSE IF ~cfg.enableRiskManagement THEN Approved(opportunity.requiredCapital)
  ELSE IF opportunity.requiredCapital > cfg.maxPositionSize
    THEN Approved(cfg.maxPositionSize)
  ELSE IF opportunity.requiredCapital < cfg.minPositionSize
    THEN Rejected("BELOW_MIN_SIZE")
  ELSE IF Len(positions) >= cfg.maxConcurrentPositions
    THEN Rejected("MAX_POSITIONS")
  ELSE IF opportunity.risk = "HIGH" /\ opportunity.profitPercentage < 5
    THEN Rejected("HIGH_RISK_PROFIT")
  ELSE Approved(opportunity.requiredCapital)

\* Mutant of evaluateOpportunity: the risk-management switch is read before
\* the trade list.
evaluateSwitchFirst(opportunity, usdc) ==
  IF ~cfg.enableRiskManagement THEN Approved(opportunity.requiredCapital)
  ELSE IF Len(opportunity.trades) = 0 THEN Rejected("SIGNAL_ONLY")
  ELSE IF Abs(dailyPnL) >= cfg.dailyMaxLoss THEN Rejected("DAILY_MAX_LOSS")
  ELSE IF usdc < opportunity.requiredCapital THEN Rejected("INSUFFICIENT_BALANCE")
  ELSE IF opportunity.requiredCapital > cfg.maxPositionSize
    THEN Approved(cfg.maxPositionSize)
  ELSE IF opportunity.requiredCapital < cfg.minPositionSize
    THEN Rejected("BELOW_MIN_SIZE")
  ELSE IF Len(positions) >= cfg.maxConcurrentPositions
    THEN Rejected("MAX_POSITIONS")
  ELSE IF opportunity.risk = "HIGH" /\ opportunity.profitPercentage < 5
    THEN Rejected("HIGH_RISK_PROFIT")
  ELSE Approved(opportunity.requiredCapital)

\* Mutant of evaluateOpportunity: the minimum position size is not checked.
evaluateOpportunityNoMinimum(opportunity, usdc) ==
  IF Len(opportunity.trades) = 0 THEN Rejected("SIGNAL_ONLY")
  ELSE IF ~cfg.enableRiskManagement THEN Approved(opportunity.requiredCapital)
  ELSE IF Abs(dailyPnL) >= cfg.dailyMaxLoss THEN Rejected("DAILY_MAX_LOSS")
  ELSE IF usdc < opportunity.requiredCapital THEN Rejected("INSUFFICIENT_BALANCE")
  ELSE IF opportunity.requiredCapital > cfg.maxPositionSize
    THEN Approved(cfg.maxPositionSize)
  ELSE IF Len(positions) >= cfg.maxConcurrentPositions
    THEN Rejected("MAX_POSITIONS")
  ELSE IF opportunity.risk = "HIGH" /\ opportunity.profitPercentage < 5
    THEN Rejected("HIGH_RISK_PROFIT")
  ELSE Approved(opportunity.requiredCapital)

\* evaluateOpportunity: the checks in the order of the code.  The warning
\* logged when the position exceeds 20% of the balance changes nothing.
evaluateOpportunity(opportunity, usdc) ==
  IF Len(opportunity.trades) = 0 THEN Rejected("SIGNAL_ONLY")
  ELSE IF ~cfg.enableRiskManagement THEN Approved(opportunity.requiredCapital)
  ELSE IF Abs(dailyPnL) >= cfg.dailyMaxLoss THEN Rejected("DAILY_MAX_LOSS")
  ELSE IF usdc < opportunity.requiredCapital THEN Rejected("INSUFFICIENT_BALANCE")
  ELSE IF opportunity.requiredCapital > cfg.maxPositionSize
    THEN Approved(cfg.maxPositionSize)
  ELSE IF opportunity.requiredCapital < cfg.minPositionSize
    THEN Rejected("BELOW_MIN_SIZE")
  ELSE IF Len(positions) >= cfg.maxConcurrentPositions
    THEN Rejected("MAX_POSITIONS")
  ELSE IF opportunity.risk = "HIGH" /\ opportunity.profitPercentage < 5
    THEN Rejected("HIGH_RISK_PROFIT")
  ELSE Approved(opportunity.requiredCapital)

NotEvaluated == [called |-> FALSE]
NotAsked == [called |-> FALSE]

\* A call of evaluateOpportunity; lastEval keeps its input and its answer
\* until the risk manager's state next changes.
EvaluateOpportunity(opportunity, usdc) ==
  /\ lastEval' = [called |-> TRUE, opportunity |-> opportunity, usdc |-> usdc,
                  result |-> evaluateOpportunity(opportunity, usdc)]
  /\ UNCHANGED <<cfg, positions, dailyPnL, dailyStartTime, stats, now, lastStop>>

recordTradeStats(profit, success) ==
  LET s1 == [stats EXCEPT !.totalTrades = @ + 1]
      s2 == IF success
              THEN LET s == [s1 EXCEPT !.successfulTrades = @ + 1]
                   IN  IF profit > 0
                         THEN [s EXCEPT !.totalProfit = @ + profit,
                                        !.largestProfit = Max(@, profit)]
                         ELSE [s EXCEPT !.totalLoss = @ + Abs(profit),
                                        !.largestLoss = Max(@, Abs(profit))]
              ELSE [s1 EXCEPT !.failedTrades = @ + 1]
      net == s2.totalProfit - s2.totalLoss
  IN  [s2 EXCEPT
         !.netProfit = net,
         !.winRate = IF s2.totalTrades > 0
                       THEN Fraction(s2.successfulTrades * 100, s2.totalTrades)
                       ELSE Fraction(0, 1),
         !.averageProfit = IF s2.successfulTrades > 0
                             THEN Fraction(net, s2.successfulTrades)
                             ELSE Fraction(0, 1),
         !.dailyPnL = IF success THEN dailyPnL + profit ELSE dailyPnL]

\* Mutant of RecordTrade: a failed trade is charged to the daily accumulator.
RecordTradeChargingFailure(profit, success) ==
  /\ stats.totalTrades < MaxTrades
  /\ stats' = recordTradeStats(profit, success)
  /\ dailyPnL' = IF success THEN dailyPnL + profit ELSE dailyPnL - 1
  /\ lastEval' = NotEvaluated
  /\ lastStop' = NotAsked
  /\ UNCHANGED <<cfg, positions, dailyStartTime, now>>

\* Mutant of RecordTrade: the profit is added to the daily accumulator
\* whether or not the trade succeeded.
RecordTradeAlwaysAdds(profit, success) ==
  /\ stats.totalTrades < MaxTrades
  /\ stats' = recordTradeStats(profit, success)
  /\ dailyPnL' = dailyPnL + profit
  /\ lastEval' = NotEvaluated
  /\ lastStop' = NotAsked
  /\ UNCHANGED <<cfg, positions, dailyStartTime, now>>

RecordTrade(profit, success) ==
  /\ stats.totalTrades < MaxTrades
  /\ stats' = recordTradeStats(profit, success)
  /\ dailyPnL' = IF success THEN dailyPnL + profit ELSE dailyPnL
  /\ lastEval' = NotEvaluated
  /\ lastStop' = NotAsked
  /\ UNCHANGED <<cfg, positions, dailyStartTime, now>>

Position(marketId, tokenId) ==
  [marketId |-> marketId, tokenId |-> tokenId, amount |-> 1, averagePrice |-> 49000]

AddPosition(position) ==
  /\ Len(positions) < MaxPositions
  /\ positions' = Append(positions, position)
  /\ lastEval' = NotEvaluated
  /\ lastStop' = NotAsked
  /\ UNCHANGED <<cfg, dailyPnL, dailyStartTime, stats, now>>

Matching(marketId, tokenId) ==
  { i \in DOMAIN positions :
      positions[i].marketId = marketId /\ positions[i].tokenId = tokenId }

RemoveAt(seq, k) == [i \in 1 .. (Len(seq) - 1) |-> IF i < k THEN seq[i] ELSE seq[i + 1]]

\* removePosition: splices out the first matching position, if any.
RemovePosition(marketId, tokenId) ==
  /\ positions' =
       IF Matching(marketId, tokenId) = {} THEN positions
       ELSE RemoveAt(positions,
              CHOOSE i \in Matching(marketId, tokenId) :
                \A j \in Matching(marketId, tokenId) : i <= j)
  /\ lastEval' = NotEvaluated
  /\ lastStop' = NotAsked
  /\ UNCHANGED <<cfg, dailyPnL, dailyStartTime, stats, now>>

\* Mutant of ResetDailyStats: the period must be exceeded, not just reached.
ResetDailyStatsAfterPeriod ==
  /\ IF now - dailyStartTime > 24
       THEN dailyPnL' = 0 /\ dailyStartTime' = now
       ELSE UNCHANGED <<dailyPnL, dailyStartTime>>
  /\ lastEval' = NotEvaluated
  /\ lastStop' = NotAsked
  /\ UNCHANGED <<cfg, positions, stats, now>>

\* resetDailyStats: every 24 hours.
ResetDailyStats ==
  /\ IF now - dailyStartTime >= 24
       THEN dailyPnL' = 0 /\ dailyStartTime' = now
       ELSE UNCHANGED <<dailyPnL, dailyStartTime>>
  /\ lastEval' = NotEvaluated
  /\ lastStop' = NotAsked
  /\ UNCHANGED <<cfg, positions, stats, now>>

\* Mutant of shouldEmergencyStop: the threshold is the whole daily limit.
shouldStopAtFullLimit == Abs(dailyPnL) >= cfg.dailyMaxLoss

\* shouldEmergencyStop: |dailyPnL| >= dailyMaxLoss * 0.8, in tenths.
shouldEmergencyStop == Abs(dailyPnL) * 10 >= cfg.dailyMaxLoss * 8

\* A call of shouldEmergencyStop; lastStop keeps its answer until the risk
\* manager's state next changes.
ShouldEmergencyStop ==
  /\ lastStop' = [called |-> TRUE, result |-> shouldEmergencyStop]
  /\ UNCHANGED <<cfg, positions, dailyPnL, dailyStartTime, stats, now, lastEval>>

\* Time passes, in steps of half a day.
ClockSteps == {12}

AdvanceClock ==
  /\ \E d \in ClockSteps : now + d <= MaxClock /\ now' = now + d
  /\ lastEval' = NotEvaluated
  /\ lastStop' = NotAsked
  /\ UNCHANGED <<cfg, positions, dailyPnL, dailyStartTime, stats>>

Profits == {-4, 0, 2}

----------------------------------------------------------------------------
\* The risk manager and the controller keep their state while an executor
\* runs on its own.

RiskInit ==
  /\ cfg \in Configs
  /\ positions = <<>>
  /\ dailyPnL = 0
  /\ dailyStartTime = 0
  /\ stats = InitialStats
  /\ now = 0
  /\ lastEval = NotEvaluated
  /\ lastStop = NotAsked

BotInit ==
  /\ bpc = "idle"
  /\ cur = [none |-> TRUE]
  /\ balance = 0
  /\ evaluation = [none |-> TRUE]
  /\ execCalls = 0
  /\ recordCalls = 0

ExecInit ==
  /\ epc = "idle"
  /\ trades = <<>>
  /\ books = <<>>
  /\ limitPrices = <<>>
  /\ orders = <<>>
  /\ posts = <<>>
  /\ toCancel = <<>>
  /\ results = <<>>
  /\ exchange = <<>>
  /\ createCalls = 0
  /\ postCalls = 0
  /\ cancelReqs = <<>>

\* A client calls executeTrades of the atomic executor, one call at a time.
CallExecuteTrades ==
  /\ epc \in {"idle", "returned"}
  /\ \E batch \in Batches : EnterExecuteTrades(batch)
  /\ UNCHANGED <<riskVars, botVars, scanVars, detVars, mdsVars>>

----------------------------------------------------------------------------
\* PriceHistory (src/unnamed/part_001).

MAX_HISTORY_SIZE == 60
HISTORY_WINDOW == 30
MIN_SAMPLES == 10
STD_DEV_FLOOR == 2

TokenIds == {"YES", "NO"}

Sample(price, timestamp) == [price |-> price, timestamp |-> timestamp]

\* Array.slice(-n)
LastN(s, n) == IF Len(s) <= n THEN s ELSE SubSeq(s, Len(s) - n + 1, Len(s))

\* Mutant of cleanOldRecords: a sample exactly HISTORY_WINDOW old is kept.
cleanOldRecordsInclusive(records, t) ==
  LET cutoff == t - HISTORY_WINDOW
  IN  LastN(SelectSeq(records, LAMBDA r : r.timestamp >= cutoff),
            MAX_HISTORY_SIZE)

cleanOldRecords(records, t) ==
  LET cutoff == t - HISTORY_WINDOW
  IN  LastN(SelectSeq(records, LAMBDA r : r.timestamp > cutoff),
            MAX_HISTORY_SIZE)

\* Mutant of record: a sample equal to the newest stored one is dropped.
recordDeduplicating(h, tokenId, price, t) ==
  IF h[tokenId] # <<>> /\ h[tokenId][Len(h[tokenId])] = Sample(price, t)
    THEN [h EXCEPT ![tokenId] = cleanOldRecords(@, t)]
    ELSE [h EXCEPT ![tokenId] = cleanOldRecords(Append(@, Sample(price, t)), t)]

\* record: push, then clean.  An instrument never recorded has no samples.
record(h, tokenId, price, t) ==
  [h EXCEPT ![tokenId] = cleanOldRecords(Append(@, Sample(price, t)), t)]

RECURSIVE SumPrices(_)
SumPrices(records) ==
  IF records = <<>> THEN 0 ELSE Head(records).price + SumPrices(Tail(records))

\* sum (p - base)^2
RECURSIVE SumSquares(_, _)
SumSquares(records, base) ==
  IF records = <<>> THEN 0
  ELSE (Head(records).price - base) * (Head(records).price - base)
         + SumSquares(Tail(records), base)

\* n * n * variance of the stored prices, i.e. n * sum (p - mean)^2.  The
\* variance does not change when every price is shifted by the first one,
\* which keeps the numbers small: n * sum (p - base)^2 - (sum (p - base))^2.
Spread(records) ==
  IF records = <<>> THEN 0
  ELSE LET base == records[1].price
           shifted == SumPrices(records) - Len(records) * base
       IN  Len(records) * SumSquares(records, base) - shifted * shifted

\* A Z-score is null or the number d / sqrt(v).
NullScore == [null |-> TRUE, d |-> 0, v |-> 1]
ZeroScore == [null |-> FALSE, d |-> 0, v |-> 1]
Score(d, v) == [null |-> FALSE, d |-> d, v |-> v]

\* |z| >= k and |z| > k, for a Z-score that is not null and k >= 0.
ScoreAtLeast(z, k) == z.d * z.d >= k * k * z.v
ScoreAbove(z, k) == z.d * z.d > k * k * z.v

\* Mutant of getZScore: the near-constant series is not special-cased.
getZScoreNoFloor(h, tokenId, currentPrice) ==
  LET records == h[tokenId]
      n == Len(records)
      spread == Spread(records)
  IN  IF n < MIN_SAMPLES THEN NullScore
      ELSE Score(n * currentPrice - SumPrices(records),
                 IF spread = 0 THEN 1 ELSE spread)

\* (currentPrice - mean) / stdDev = (n * currentPrice - sum) / sqrt(Spread);
\* stdDev < 0.001 is Spread < (0.001 * n)^2.
getZScore(h, tokenId, currentPrice) ==
  LET records == h[tokenId]
      n == Len(records)
      spread == Spread(records)
  IN  IF n < MIN_SAMPLES THEN NullScore
      ELSE IF spread < STD_DEV_FLOOR * STD_DEV_FLOOR * n * n
        THEN ZeroScore
        ELSE Score(n * currentPrice - SumPrices(records), spread)

\* getStats: mean is sum / count and stdDev is sqrt(spread) / count; with
\* no samples every field but count is null.
getStats(h, tokenId) ==
  LET records == h[tokenId]
      prices == { records[i].price : i \in 1 .. Len(records) }
  IN  IF records = <<>>
        THEN [count |-> 0, null |-> TRUE, sum |-> 0, min |-> 0, max |-> 0,
              spread |-> 0]
        ELSE [count |-> Len(records), null |-> FALSE,
              sum |-> SumPrices(records),
              min |-> CHOOSE p \in prices : \A q \in prices : p <= q,
              max |-> CHOOSE p \in prices : \A q \in prices : p >= q,
              spread |-> Spread(records)]

----------------------------------------------------------------------------
\* ArbitrageDetector (src/src/arbitrage/ArbitrageDetector.ts).

TRADING_FEE_RATE == 1
ONE == 1000
Z_THRESHOLD == 2

\* mills to 1e-5 currency units
Money(mills) == 100 * mills

\* What a quote lookup gives: a quote, null, or an exception (threw).
NoPrices == [ok |-> FALSE, threw |-> FALSE, bid |-> 0, ask |-> 0]
BestPrices(bid, ask) == [ok |-> TRUE, threw |-> FALSE, bid |-> bid, ask |-> ask]
LookupThrows == [ok |-> FALSE, threw |-> TRUE, bid |-> 0, ask |-> 0]

\* A question is the sequence of its lower-cased, whitespace-separated words.
MarketAbout(id, tokens, question, category) ==
  [id |-> id, tokens |-> tokens, question |-> question, category |-> category]

MockQuestion == <<"mock", "market", "for", "detector", "self-test">>

Market(id, tokens) == MarketAbout(id, tokens, MockQuestion, "mock")

DetectedTrade(marketId, tokenId, side, type, price) ==
  [marketId |-> marketId, tokenId |-> tokenId, side |-> side, type |-> type,
   price |-> price, amount |-> 1]

\* id keeps the part of the identifier that names the variant and otherId the
\* second market id of a cross-market identifier.  The expected profit is
\* expectedProfit / profitDen and the profit percentage pctNum / pctDen.
Detected(id, strategy, marketId, expectedProfit, pctNum, pctDen, requiredCapital, legs, risk) ==
  [id |-> id, strategy |-> strategy, marketId |-> marketId, otherId |-> "",
   expectedProfit |-> expectedProfit, profitDen |-> 1,
   pctNum |-> pctNum, pctDen |-> pctDen,
   requiredCapital |-> requiredCapital, trades |-> legs, risk |-> risk]

DetectedShare(id, strategy, marketId, profitNum, profitDen, pctNum, pctDen, requiredCapital, legs, risk) ==
  [Detected(id, strategy, marketId, profitNum, pctNum, pctDen, requiredCapital,
            legs, risk) EXCEPT !.profitDen = profitDen]

\* profitPercentage >= minProfitThreshold, i.e. num / den >= threshold / 10;
\* a zero denominator makes the percentage infinite.
MeetsThreshold(pctNum, pctDen, threshold) == pctNum * 10 >= threshold * pctDen

calculateRisk(pctNum, pctDen, capital) ==
  IF pctNum >= 5 * pctDen /\ capital <= Money(50 * ONE) THEN "LOW"
  ELSE IF pctNum >= 3 * pctDen \/ capital <= Money(100 * ONE) THEN "MEDIUM"
  ELSE "HIGH"

\* The buy-both opportunity of detectPriceImbalance (lines 177-216).
imbalanceBuy(market, yesPrices, noPrices, threshold) ==
  LET buyCost == yesPrices.ask + noPrices.ask
      totalFees == (Money(buyCost) * TRADING_FEE_RATE * 2) \div 100
      grossProfit == Money(ONE) - Money(buyCost)
      netProfit == grossProfit - totalFees
      pctNum == netProfit * 100
      pctDen == Money(buyCost)
  IN  IF buyCost < ONE /\ MeetsThreshold(pctNum, pctDen, threshold)
         /\ netProfit > 0
        THEN << Detected("imbalance_buy", "PRICE_IMBALANCE", market.id,
                         netProfit, pctNum, pctDen, Money(buyCost),
                         << DetectedTrade(market.id, market.tokens[1], "BUY",
                                          "MARKET", Money(yesPrices.ask)),
                            DetectedTrade(market.id, market.tokens[2], "BUY",
                                          "MARKET", Money(noPrices.ask)) >>,
                         calculateRisk(pctNum, pctDen, Money(buyCost))) >>
        ELSE <<>>

\* The mid-price signal of detectPriceImbalance (lines 217-237); mids are
\* doubled, so midCost in 1e-5 units is 50 * (sum of the four quotes).
imbalanceSignal(market, yesPrices, noPrices, threshold) ==
  LET midYes == yesPrices.bid + yesPrices.ask
      midNo == noPrices.bid + noPrices.ask
      midCost == 50 * (midYes + midNo)
      profit == Money(ONE) - midCost
      pctNum == profit * 100
  IN  IF midCost < Money(ONE) /\ MeetsThreshold(pctNum, midCost, threshold)
        THEN << Detected("imbalance_signal", "PRICE_IMBALANCE", market.id,
                         profit, pctNum, midCost, midCost, <<>>, "HIGH") >>
        ELSE <<>>

\* Mutant of detectPriceImbalance: the mid-price signal is left out.
detectPriceImbalanceBuyOnly(market, quotes, threshold) ==
  IF market.tokens[1] = "" \/ market.tokens[2] = "" THEN <<>>
  ELSE IF ~quotes[market.tokens[1]].ok \/ ~quotes[market.tokens[2]].ok
    THEN <<>>
    ELSE imbalanceBuy(market, quotes[market.tokens[1]],
                      quotes[market.tokens[2]], threshold)

\* Mutant of detectPriceImbalance: the fee is not deducted.
detectPriceImbalanceNoFee(market, quotes, threshold) ==
  IF market.tokens[1] = "" \/ market.tokens[2] = "" THEN <<>>
  ELSE IF ~quotes[market.tokens[1]].ok \/ ~quotes[market.tokens[2]].ok
    THEN <<>>
    ELSE LET yesPrices == quotes[market.tokens[1]]
             noPrices == quotes[market.tokens[2]]
             buyCost == yesPrices.ask + noPrices.ask
             grossProfit == Money(ONE) - Money(buyCost)
         IN  (IF buyCost < ONE
                  /\ MeetsThreshold(grossProfit * 100, Money(buyCost), threshold)
                  /\ grossProfit > 0
                THEN << Detected("imbalance_buy", "PRICE_IMBALANCE", market.id,
                          grossProfit, grossProfit * 100, Money(buyCost),
                          Money(buyCost),
                          << DetectedTrade(market.id, market.tokens[1], "BUY",
                                           "MARKET", Money(yesPrices.ask)),
                             DetectedTrade(market.id, market.tokens[2], "BUY",
                                           "MARKET", Money(noPrices.ask)) >>,
                          calculateRisk(grossProfit * 100, Money(buyCost),
                                        Money(buyCost))) >>
                ELSE <<>>)
             \o imbalanceSignal(market, yesPrices, noPrices, threshold)

\* detectPriceImbalance: the opportunities it adds, in order.
detectPriceImbalance(market, quotes, threshold) ==
  IF market.tokens[1] = "" \/ market.tokens[2] = "" THEN <<>>
  ELSE IF ~quotes[market.tokens[1]].ok \/ ~quotes[market.tokens[2]].ok
    THEN <<>>
    ELSE imbalanceBuy(market, quotes[market.tokens[1]],
                      quotes[market.tokens[2]], threshold)
         \o imbalanceSignal(market, quotes[market.tokens[1]],
                            quotes[market.tokens[2]], threshold)

\* Mutant of detectTimeBased: the leg's side is BUY above the mean.
detectTimeBasedInverted(market, quotes, threshold, acc, t) ==
  LET token == market.tokens[1]
      midPrice == quotes[token].bid + quotes[token].ask
      h == record(acc.h, token, midPrice, t)
      zScore == getZScore(h, token, midPrice)
      priceStats == getStats(h, token)
      potentialProfit == Abs(priceStats.count * midPrice - priceStats.sum)
      pctDen == priceStats.count * midPrice
      pctNum == 100 * potentialProfit - TRADING_FEE_RATE * 2 * pctDen
  IN  IF token = "" THEN acc
      ELSE IF ~quotes[token].ok THEN acc
      ELSE IF zScore.null \/ priceStats.sum = 0 \/ priceStats.count < 10
                \/ ~ScoreAtLeast(zScore, Z_THRESHOLD)
                \/ ~MeetsThreshold(pctNum, pctDen, threshold)
        THEN [acc EXCEPT !.h = h]
        ELSE [h |-> h,
              opps |-> Append(acc.opps,
                DetectedShare("timebased", "TIME_BASED", market.id,
                         50 * potentialProfit, priceStats.count,
                         pctNum, pctDen, 50 * midPrice,
                         << DetectedTrade(market.id, token,
                                          IF zScore.d > 0 THEN "BUY" ELSE "SELL",
                                          "LIMIT", 50 * midPrice) >>,
                         IF ScoreAbove(zScore, 3) THEN "MEDIUM" ELSE "HIGH"))]

\* detectTimeBased: acc is the detector's list and the price history so far.
\* |midPrice - mean| is potentialProfit / count half-mills, so expectedProfit
\* is 50 * potentialProfit / count; the net percentage is pctNum / pctDen.
detectTimeBased(market, quotes, threshold, acc, t) ==
  LET token == market.tokens[1]
      midPrice == quotes[token].bid + quotes[token].ask
      h == record(acc.h, token, midPrice, t)
      zScore == getZScore(h, token, midPrice)
      priceStats == getStats(h, token)
      potentialProfit == Abs(priceStats.count * midPrice - priceStats.sum)
      pctDen == priceStats.count * midPrice
      pctNum == 100 * potentialProfit - TRADING_FEE_RATE * 2 * pctDen
  IN  IF token = "" THEN acc
      ELSE IF ~quotes[token].ok THEN acc
      ELSE IF zScore.null \/ priceStats.sum = 0 \/ priceStats.count < 10
                \/ ~ScoreAtLeast(zScore, Z_THRESHOLD)
                \/ ~MeetsThreshold(pctNum, pctDen, threshold)
        THEN [acc EXCEPT !.h = h]
        ELSE [h |-> h,
              opps |-> Append(acc.opps,
                DetectedShare("timebased", "TIME_BASED", market.id,
                         50 * potentialProfit, priceStats.count,
                         pctNum, pctDen, 50 * midPrice,
                         << DetectedTrade(market.id, token,
                                          IF zScore.d > 0 THEN "SELL" ELSE "BUY",
                                          "LIMIT", 50 * midPrice) >>,
                         IF ScoreAbove(zScore, 3) THEN "MEDIUM" ELSE "HIGH"))]

\* parseMarketQuestion, on the words of the question.  Both patterns ask for
\* a word made of word characters, then a direction word, then a word that
\* starts with a number; the first pattern also asks for "will" before them
\* and is tried first.  Numbers gives the threshold of the number words used
\* here (a trailing k multiplies by 1000).
Directions == {"hit", "reach", "above", "below", ">", "<"}

Numbers ==
  ("90k" :> 90000) @@ ("100k" :> 100000) @@ ("110k" :> 110000)
    @@ ("3k" :> 3000) @@ ("4k" :> 4000)

NonWords == {">", "<", "self-test"}

NoInfo == [null |-> TRUE, asset |-> "", direction |-> "", threshold |-> 0]

MatchAt(question, i) ==
  /\ i + 2 <= Len(question)
  /\ question[i] \notin NonWords
  /\ question[i + 1] \in Directions
  /\ question[i + 2] \in DOMAIN Numbers

InfoAt(question, i) ==
  [null |-> FALSE, asset |-> question[i], direction |-> question[i + 1],
   threshold |-> Numbers[question[i + 2]]]

Leftmost(S) == CHOOSE i \in S : \A j \in S : i <= j

parseMarketQuestion(question) ==
  LET afterWill == { i \in 2 .. Len(question) :
                      question[i - 1] = "will" /\ MatchAt(question, i) }
      anywhere == { i \in 1 .. Len(question) : MatchAt(question, i) }
  IN  IF afterWill # {} THEN InfoAt(question, Leftmost(afterWill))
      ELSE IF anywhere # {} THEN InfoAt(question, Leftmost(anywhere))
      ELSE NoInfo

\* calculateSimilarity: the Jaccard index of the two word sets, num / den.
calculateSimilarity(text1, text2) ==
  LET words1 == { text1[i] : i \in DOMAIN text1 }
      words2 == { text2[i] : i \in DOMAIN text2 }
  IN  [num |-> Cardinality(words1 \cap words2),
       den |-> Cardinality(words1 \cup words2)]

\* The quote source, asked for a token.
getBestPrices(quotes, tokenId) ==
  IF tokenId \in DOMAIN quotes THEN quotes[tokenId] ELSE NoPrices

\* What a check of a pair of markets did: it threw, or it added opps.
PairThrew == [threw |-> TRUE, opps |-> <<>>]
PairDone(opps) == [threw |-> FALSE, opps |-> opps]

NESTED_TOLERANCE == 40

DetectedPair(id, market1, market2, gap) ==
  [Detected(id, "CROSS_MARKET", market1.id, 50 * gap, gap, 20, Money(2 * ONE),
            <<>>, "HIGH") EXCEPT !.otherId = market2.id]

\* checkNestedMarketArbitrage; market1 is binary, market2 is any market of the
\* scan, and reading tokens[0].tokenId of a market without tokens throws.
\* Probabilities are doubled mids, so a gap of g is g / 20 percent.
checkNestedMarketArbitrage(market1, market2, info1, info2, quotes, threshold) ==
  LET prices1 == getBestPrices(quotes, market1.tokens[1])
      prices2 == getBestPrices(quotes, market2.tokens[1])
      prob1 == prices1.bid + prices1.ask
      prob2 == prices2.bid + prices2.ask
      lowerThresholdProb == IF info1.threshold < info2.threshold THEN prob1 ELSE prob2
      higherThresholdProb == IF info1.threshold < info2.threshold THEN prob2 ELSE prob1
      profitGap == higherThresholdProb - lowerThresholdProb
  IN  IF prices1.threw \/ market2.tokens = <<>> THEN PairThrew
      ELSE IF prices2.threw THEN PairThrew
      ELSE IF ~prices1.ok \/ ~prices2.ok THEN PairDone(<<>>)
      ELSE IF higherThresholdProb > lowerThresholdProb + NESTED_TOLERANCE
                /\ MeetsThreshold(profitGap, 20, threshold)
        THEN PairDone(<< DetectedPair("crossmarket_nested", market1, market2, profitGap) >>)
        ELSE PairDone(<<>>)

checkSimilarMarketArbitrage(market1, market2, quotes, threshold) ==
  LET prices1 == getBestPrices(quotes, market1.tokens[1])
      prices2 == getBestPrices(quotes, market2.tokens[1])
      prob1 == prices1.bid + prices1.ask
      prob2 == prices2.bid + prices2.ask
      priceDiff == Abs(prob1 - prob2)
  IN  IF prices1.threw \/ market2.tokens = <<>> THEN PairThrew
      ELSE IF prices2.threw THEN PairThrew
      ELSE IF ~prices1.ok \/ ~prices2.ok THEN PairDone(<<>>)
      ELSE IF MeetsThreshold(priceDiff, 20, threshold * 2)
        THEN PairDone(<< DetectedPair("crossmarket_similar", market1, market2, priceDiff) >>)
        ELSE PairDone(<<>>)

IsNestedPair(info1, info2) ==
  /\ info1.asset = info2.asset
  /\ info1.direction = info2.direction
  /\ info1.threshold # info2.threshold

IsSimilar(similarity) ==
  /\ 10 * similarity.num > 7 * similarity.den
  /\ 100 * similarity.num < 95 * similarity.den

\* The loop of detectCrossMarket over allMarkets; an exception ends it, and
\* what was added before stays in the list.
RECURSIVE crossMarketLoop(_, _, _, _, _)
crossMarketLoop(market, marketInfo, others, quotes, threshold) ==
  IF others = <<>> THEN PairDone(<<>>)
  ELSE LET otherMarket == Head(others)
           otherInfo == parseMarketQuestion(otherMarket.question)
           rest == crossMarketLoop(market, marketInfo, Tail(others), quotes, threshold)
           nested == IF IsNestedPair(marketInfo, otherInfo)
                       THEN checkNestedMarketArbitrage(market, otherMarket, marketInfo,
                                                       otherInfo, quotes, threshold)
                       ELSE PairDone(<<>>)
           similar == IF IsSimilar(calculateSimilarity(market.question, otherMarket.question))
                        THEN checkSimilarMarketArbitrage(market, otherMarket, quotes, threshold)
                        ELSE PairDone(<<>>)
       IN  IF otherMarket.id = market.id \/ otherInfo.null THEN rest
           ELSE IF nested.threw THEN PairThrew
           ELSE IF similar.threw THEN [threw |-> TRUE, opps |-> nested.opps]
           ELSE [threw |-> rest.threw, opps |-> nested.opps \o similar.opps \o rest.opps]

\* detectCrossMarket: what it added, and whether its catch block ran.
detectCrossMarket(market, allMarkets, quotes, threshold) ==
  IF parseMarketQuestion(market.question).null THEN PairDone(<<>>)
  ELSE crossMarketLoop(market, parseMarketQuestion(market.question), allMarkets,
                       quotes, threshold)

\* Mutant of applyStrategy: an exception inside detectCrossMarket is not
\* caught there and the scan loses the list it had built.
applyStrategyUncaught(strategy, market, markets, quotes, threshold, acc, t) ==
  IF strategy = "PRICE_IMBALANCE"
    THEN [acc EXCEPT !.opps = @ \o detectPriceImbalance(market, quotes, threshold)]
  ELSE IF strategy = "CROSS_MARKET"
    THEN IF detectCrossMarket(market, markets, quotes, threshold).threw
           THEN [acc EXCEPT !.opps = <<>>]
           ELSE [acc EXCEPT !.opps = @ \o detectCrossMarket(market, markets, quotes,
                                                            threshold).opps]
  ELSE IF strategy = "TIME_BASED"
    THEN detectTimeBased(market, quotes, threshold, acc, t)
  ELSE acc

\* One case of the switch over the enabled strategies.
applyStrategy(strategy, market, markets, quotes, threshold, acc, t) ==
  IF strategy = "PRICE_IMBALANCE"
    THEN [acc EXCEPT !.opps = @ \o detectPriceImbalance(market, quotes, threshold)]
  ELSE IF strategy = "CROSS_MARKET"
    THEN [acc EXCEPT !.opps = @ \o detectCrossMarket(market, markets, quotes,
                                                     threshold).opps]
  ELSE IF strategy = "TIME_BASED"
    THEN detectTimeBased(market, quotes, threshold, acc, t)
  ELSE acc

\* The strategies of one market, in the order they are enabled; a market
\* that is not binary is skipped.
RECURSIVE scanMarket(_, _, _, _, _, _, _)
scanMarket(market, markets, strategies, quotes, threshold, acc, t) ==
  IF Len(market.tokens) # 2 \/ strategies = <<>> THEN acc
  ELSE scanMarket(market, markets, Tail(strategies), quotes, threshold,
                  applyStrategy(Head(strategies), market, markets, quotes,
                                threshold, acc, t), t)

\* todo are the markets still to visit, markets all markets of the scan.
RECURSIVE scanMarkets(_, _, _, _, _, _, _)
scanMarkets(todo, markets, strategies, quotes, threshold, acc, t) ==
  IF todo = <<>> THEN acc
  ELSE scanMarkets(Tail(todo), markets, strategies, quotes, threshold,
                   scanMarket(Head(todo), markets, strategies, quotes,
                              threshold, acc, t), t)

NoScan == [called |-> FALSE]

\* scanOpportunities: the list starts empty, every binary market is passed
\* to every enabled strategy, the list is returned.
scanOpportunities(markets, quotes) ==
  LET r == scanMarkets(markets, markets, enabledStrategies, quotes, minProfitThreshold,
                       [opps |-> <<>>, h |-> history], minute)
  IN  /\ opportunities' = r.opps
      /\ history' = r.h
      /\ scanned' = [called |-> TRUE, markets |-> markets, quotes |-> quotes]
      /\ UNCHANGED <<minProfitThreshold, enabledStrategies, minute>>
      /\ UNCHANGED <<execVars, riskVars, botVars, scanVars, mdsVars>>

\* A direct call of PriceHistory.record.
Record(tokenId, price) ==
  /\ Len(history[tokenId]) < MaxSamples
  /\ history' = record(history, tokenId, price, minute)
  /\ UNCHANGED <<minProfitThreshold, enabledStrategies, opportunities, minute,
                 scanned>>
  /\ UNCHANGED <<execVars, riskVars, botVars, scanVars, mdsVars>>

\* Time passes for PriceHistory.
MinuteSteps == {40}

AdvanceMinute ==
  /\ \E d \in MinuteSteps : /\ minute + d <= MaxMinute
                            /\ minute' = minute + d
  /\ UNCHANGED <<minProfitThreshold, enabledStrategies, opportunities, history,
                 scanned>>
  /\ UNCHANGED <<execVars, riskVars, botVars, scanVars, mdsVars>>

DetInit(threshold, strategies) ==
  /\ minProfitThreshold = threshold
  /\ enabledStrategies = strategies
  /\ opportunities = <<>>
  /\ history = [t \in TokenIds |-> <<>>]
  /\ minute = 0
  /\ scanned = NoScan

\* MarketDataService.getOrderBook and its cache.  An entry holds the order
\* book that was fetched (or null, for a token the exchange does not know)
\* and the time it was stored.
CACHE_TTL == 2000
FETCH_TIMEOUT == 3000

NoData == [null |-> TRUE, timestamp |-> 0]
FetchedBook(t) == [null |-> FALSE, timestamp |-> t]

NoEntry == [present |-> FALSE, data |-> NoData, timestamp |-> 0]
CacheEntry(data, t) == [present |-> TRUE, data |-> data, timestamp |-> t]

MaxReaders == 2
MaxCacheTicks == 3
Readers == 1 .. MaxReaders

\* The tokens whose order book is asked for.
CachedTokens == {"YES"}

IdleReader ==
  [pc |-> "idle", tokenId |-> "", at |-> 0, fetched |-> FALSE,
   response |-> "", result |-> NoData]

\* Mutant of CacheFresh: an entry exactly CACHE_TTL old is still served.
CacheFreshInclusive(cached, t) ==
  cached.present /\ t - cached.timestamp <= CACHE_TTL

\* The test at the entry of getOrderBook.
CacheFresh(cached, t) ==
  cached.present /\ t - cached.timestamp < CACHE_TTL

\* getOrderBook up to its first await: the cached data is returned, or the
\* fetch is started.
GetOrderBook(r, tokenId) ==
  /\ readers[r].pc = "idle"
  /\ readers' = [readers EXCEPT ![r] =
       IF CacheFresh(orderBookCache[tokenId], cacheNow)
         THEN [pc |-> "returned", tokenId |-> tokenId, at |-> cacheNow,
               fetched |-> FALSE, response |-> "",
               result |-> orderBookCache[tokenId].data]
         ELSE [pc |-> "fetching", tokenId |-> tokenId, at |-> cacheNow,
               fetched |-> TRUE, response |-> "", result |-> NoData]]
  /\ UNCHANGED <<orderBookCache, cacheNow, marketFetch, auth>>
  /\ UNCHANGED <<execVars, riskVars, botVars, scanVars, detVars>>

\* What the fetch can end with: a status, another HTTP status (an error is
\* thrown for it, as the network does on its own), or the abort after
\* FETCH_TIMEOUT.
Responses == {"200", "404", "429", "500", "AbortError"}

\* getOrderBook from the end of the fetch on.
FetchSettles(r, response) ==
  /\ readers[r].pc = "fetching"
  /\ response = "AbortError" => cacheNow - readers[r].at >= FETCH_TIMEOUT
  /\ IF response = "404"
       THEN /\ orderBookCache' = [orderBookCache EXCEPT ![readers[r].tokenId] =
                                    CacheEntry(NoData, cacheNow)]
            /\ readers' = [readers EXCEPT ![r].pc = "returned",
                                          ![r].response = response,
                                          ![r].result = NoData]
     ELSE IF response = "429"
       THEN /\ readers' = [readers EXCEPT ![r].pc = "backoff",
                                          ![r].response = response]
            /\ UNCHANGED orderBookCache
     ELSE IF response = "200"
       THEN /\ orderBookCache' = [orderBookCache EXCEPT ![readers[r].tokenId] =
                                    CacheEntry(FetchedBook(cacheNow), cacheNow)]
            /\ readers' = [readers EXCEPT ![r].pc = "returned",
                                          ![r].response = response,
                                          ![r].result = FetchedBook(cacheNow)]
       ELSE /\ readers' = [readers EXCEPT ![r].pc = "returned",
                                          ![r].response = response,
                                          ![r].result = NoData]
            /\ UNCHANGED orderBookCache
  /\ UNCHANGED <<cacheNow, marketFetch, auth>>
  /\ UNCHANGED <<execVars, riskVars, botVars, scanVars, detVars>>

\* The wait after a 429 is over: null is returned.
BackoffEnds(r) ==
  /\ readers[r].pc = "backoff"
  /\ readers' = [readers EXCEPT ![r].pc = "returned", ![r].result = NoData]
  /\ UNCHANGED <<orderBookCache, cacheNow, marketFetch, auth>>
  /\ UNCHANGED <<execVars, riskVars, botVars, scanVars, detVars>>

\* The caller has taken the result.
ReaderDone(r) ==
  /\ readers[r].pc = "returned"
  /\ readers' = [readers EXCEPT ![r] = IdleReader]
  /\ UNCHANGED <<orderBookCache, cacheNow, marketFetch, auth>>
  /\ UNCHANGED <<execVars, riskVars, botVars, scanVars, detVars>>

CacheSteps == {1000}

CacheTick ==
  /\ \E d \in CacheSteps : /\ cacheNow + d <= MaxCacheTicks * 1000
                            /\ cacheNow' = cacheNow + d
  /\ UNCHANGED <<orderBookCache, readers, marketFetch, auth>>
  /\ UNCHANGED <<execVars, riskVars, botVars, scanVars, detVars>>

\* OrderExecutor.authenticateForTrading (RiskManager.ts): the L2 session of
\* the atomic executor.  calls counts the calls made, last is what the last
\* finished call returned.
MaxAuthCalls == 2

NoSession ==
  [isAuthenticated |-> FALSE, pc |-> "idle", calls |-> 0, last |-> "none"]

isReadyForTrading == auth.isAuthenticated

\* The call up to its first await: an authenticated executor returns true at
\* once, otherwise createOrDeriveApiKey is awaited.
AuthenticateForTrading ==
  /\ auth.pc = "idle"
  /\ auth.calls < MaxAuthCalls
  /\ auth' = IF auth.isAuthenticated
               THEN [auth EXCEPT !.calls = @ + 1, !.last = "true"]
               ELSE [auth EXCEPT !.calls = @ + 1, !.pc = "deriving"]
  /\ UNCHANGED <<orderBookCache, readers, cacheNow, marketFetch>>
  /\ UNCHANGED <<execVars, riskVars, botVars, scanVars, detVars>>

\* createOrDeriveApiKey resolved (the client is rebuilt with the credentials)
\* or rejected (catch).
DeriveApiKeySettles(ok) ==
  /\ auth.pc = "deriving"
  /\ auth' = [auth EXCEPT !.pc = "idle", !.isAuthenticated = ok,
                          !.last = IF ok THEN "true" ELSE "false"]
  /\ UNCHANGED <<orderBookCache, readers, cacheNow, marketFetch>>
  /\ UNCHANGED <<execVars, riskVars, botVars, scanVars, detVars>>

\* MarketDataService.getActiveMarkets: up to RETRIES fetch attempts with a
\* growing delay between them, then the payload is mapped, sorted by
\* liquidity and cut to MAX_MARKETS; whatever is thrown gives [].
RETRIES == 3
INITIAL_DELAY == 1000
MAX_MARKETS == 300
MaxFetchCalls == 2

\* Mutant of nextDelay: the delay doubles.
nextDelayDoubling(delay) == delay * 2

\* delay *= 1.5
nextDelay(delay) == (delay * 3) \div 2

RawMarket(id, liquidity) == [id |-> id, liquidity |-> liquidity]

\* Array.sort with (a, b) => lb - la is stable: a market goes behind those
\* with at least its liquidity.
RECURSIVE InsertByLiquidity(_, _)
InsertByLiquidity(sorted, m) ==
  IF sorted = <<>> THEN << m >>
  ELSE IF Head(sorted).liquidity >= m.liquidity
    THEN << Head(sorted) >> \o InsertByLiquidity(Tail(sorted), m)
    ELSE << m >> \o sorted

RECURSIVE SortByLiquidity(_)
SortByLiquidity(markets) ==
  IF markets = <<>> THEN <<>>
  ELSE InsertByLiquidity(SortByLiquidity(SubSeq(markets, 1, Len(markets) - 1)),
                         markets[Len(markets)])

\* A payload is an array, an object with a markets array, something else,
\* or an array with an element that cannot be mapped (the mapping throws).
Payload(kind, markets) == [kind |-> kind, markets |-> markets]

selectMarkets(data) ==
  IF data.kind \in {"array", "wrapped"}
    THEN SubSeq(SortByLiquidity(data.markets), 1,
                Min(Len(data.markets), MAX_MARKETS))
    ELSE <<>>

NoFetch ==
  [pc |-> "idle", category |-> "", retries |-> 0, delay |-> 0, attempts |-> 0,
   waits |-> <<>>, last |-> "none", calls |-> 0, result |-> <<>>]

\* The call up to its first await: the first fetch is issued.
GetActiveMarkets(category) ==
  /\ marketFetch.pc \in {"idle", "returned"}
  /\ marketFetch.calls < MaxFetchCalls
  /\ marketFetch' = [pc |-> "fetching", category |-> category,
                     retries |-> RETRIES, delay |-> INITIAL_DELAY,
                     attempts |-> 1, waits |-> <<>>, last |-> "none",
                     calls |-> marketFetch.calls + 1, result |-> <<>>]
  /\ UNCHANGED <<orderBookCache, readers, cacheNow, auth>>
  /\ UNCHANGED <<execVars, riskVars, botVars, scanVars, detVars>>

\* The fetch of the attempt fails: HTTP status, abort after 10 s, network.
\* The last failure is rethrown to the outer catch, which returns [].
AttemptFails ==
  /\ marketFetch.pc = "fetching"
  /\ marketFetch' =
       IF marketFetch.retries - 1 = 0
         THEN [marketFetch EXCEPT !.retries = 0, !.last = "failed",
                                  !.pc = "returned", !.result = <<>>]
         ELSE [marketFetch EXCEPT !.retries = @ - 1, !.last = "failed",
                                  !.pc = "waiting",
                                  !.waits = Append(@, marketFetch.delay)]
  /\ UNCHANGED <<orderBookCache, readers, cacheNow, auth>>
  /\ UNCHANGED <<execVars, riskVars, botVars, scanVars, detVars>>

\* The wait is over: the delay grows and the next attempt is issued.
WaitEnds ==
  /\ marketFetch.pc = "waiting"
  /\ marketFetch' = [marketFetch EXCEPT !.pc = "fetching",
                                        !.delay = nextDelay(@),
                                        !.attempts = @ + 1]
  /\ UNCHANGED <<orderBookCache, readers, cacheNow, auth>>
  /\ UNCHANGED <<execVars, riskVars, botVars, scanVars, detVars>>

\* The fetch of the attempt succeeds with a payload: the loop is left and
\* the markets are returned ([] when the mapping throws).
AttemptSucceeds(data) ==
  /\ marketFetch.pc = "fetching"
  /\ marketFetch' = [marketFetch EXCEPT !.pc = "returned", !.last = "ok",
                                        !.result = selectMarkets(data)]
  /\ UNCHANGED <<orderBookCache, readers, cacheNow, auth>>
  /\ UNCHANGED <<execVars, riskVars, botVars, scanVars, detVars>>

MdsInit ==
  /\ orderBookCache = [t \in CachedTokens |-> NoEntry]
  /\ readers = [r \in Readers |-> IdleReader]
  /\ cacheNow = 0
  /\ marketFetch = NoFetch
  /\ auth = NoSession

\* The controller after construction: not running, no timer, no scan.
NoPass == [pc |-> "none", queue |-> <<>>]

ScanInit ==
  /\ isRunning = FALSE
  /\ timer = FALSE
  /\ isScanning = FALSE
  /\ passes = [p \in 1 .. MaxPasses |-> NoPass]
  /\ lastTick = "none"

InitExec ==
  /\ ExecInit /\ RiskInit /\ BotInit /\ ScanInit /\ DetInit(1, <<"PRICE_IMBALANCE">>)
  /\ MdsInit

NextExec ==
  \/ CallExecuteTrades
  \/ \E book \in BookSet : PreCheck(book)
  \/ \E i \in Legs, out \in {"handle", "null", "threw"} : CreateResolve(i, out)
  \/ \E i \in Legs : \E out \in PostOutcomes(i) : PostResolve(i, out)
  \/ PostAllResolved
  \/ \E ok \in BOOLEAN : CancelOrder(ok)
  \/ RollbackReturn

SpecExec == InitExec /\ [][NextExec]_vars

\* A client calls executeTrades of the sequential executor, which reads no
\* order book: bks is what getOrderBook would answer for each leg.
SeqCallExecuteTrades ==
  /\ epc \in {"idle", "returned"}
  /\ \E batch \in Batches :
       \E bks \in [1 .. Len(batch) -> BookSet] : SeqEnterExecuteTrades(batch, bks)
  /\ UNCHANGED <<riskVars, botVars, scanVars, detVars, mdsVars>>

NextSeq ==
  \/ SeqCallExecuteTrades
  \/ \E out \in {"handle", "null", "threw"} : SeqCreateOrder(out)
  \/ \E out \in PostOutcomes(Len(results) + 1) : SeqPostOrder(out)

SpecSeq == InitExec /\ [][NextSeq]_vars

\* A client of the RiskManager calls its public methods in any order.
NextRisk ==
  \/ \E o \in Opportunities, b \in Balances :
       EvaluateOpportunity(o, b) /\ UNCHANGED <<execVars, botVars, scanVars, detVars, mdsVars>>
  \/ \E p \in Profits, ok \in BOOLEAN :
       RecordTrade(p, ok) /\ UNCHANGED <<execVars, botVars, scanVars, detVars, mdsVars>>
  \/ AddPosition(Position("M", "YES")) /\ UNCHANGED <<execVars, botVars, scanVars, detVars, mdsVars>>
  \/ \E t \in {"YES", "NO"} :
       RemovePosition("M", t) /\ UNCHANGED <<execVars, botVars, scanVars, detVars, mdsVars>>
  \/ ResetDailyStats /\ UNCHANGED <<execVars, botVars, scanVars, detVars, mdsVars>>
  \/ ShouldEmergencyStop /\ UNCHANGED <<execVars, botVars, scanVars, detVars, mdsVars>>
  \/ AdvanceClock /\ UNCHANGED <<execVars, botVars, scanVars, detVars, mdsVars>>

SpecRisk == InitExec /\ [][NextRisk]_vars

----------------------------------------------------------------------------
\* The controller's processOpportunity, one opportunity at a time (the scan
\* loop awaits each call).  Its executor is the one in trading/OrderExecutor,
\* the module the controller imports.

\* getBalance returns the wallet's balance, or 0 when every RPC endpoint
\* failed; it does not throw.
GetBalanceOutcomes == {0} \cup Balances

NoBooks(batch) == [i \in 1 .. Len(batch) |-> NullBook]

\* The scan loop hands over an opportunity; first await: getBalance.
ProcessOpportunity(opportunity, usdc) ==
  /\ bpc = "idle"
  /\ stats.totalTrades < MaxTrades
  /\ cur' = opportunity
  /\ balance' = usdc
  /\ evaluation' = [none |-> TRUE]
  /\ execCalls' = 0
  /\ recordCalls' = 0
  /\ bpc' = "evaluate"
  /\ UNCHANGED <<execVars, riskVars>>

\* Second await: evaluateOpportunity; a rejection returns.
ProcEvaluate ==
  /\ bpc = "evaluate"
  /\ EvaluateOpportunity(cur, balance)
  /\ evaluation' = lastEval'.result
  /\ bpc' = IF evaluation'.approved THEN "execute" ELSE "idle"
  /\ UNCHANGED <<execVars, cur, balance, execCalls, recordCalls>>

\* Third await: executeTrades(opportunity.trades).
ProcExecute ==
  /\ bpc = "execute"
  /\ SeqEnterExecuteTrades(cur.trades, NoBooks(cur.trades))
  /\ execCalls' = execCalls + 1
  /\ bpc' = "executing"
  /\ UNCHANGED <<riskVars, cur, balance, evaluation, recordCalls>>

\* Mutant of allSuccess: one FILLED result is enough.
someSuccess == \E i \in 1 .. Len(results) : results[i].status = "FILLED"

allSuccess == \A i \in 1 .. Len(results) : results[i].status = "FILLED"

\* executeTrades returned: recordTrade with the expected profit when every
\* result is FILLED, recordTrade(0, false) otherwise.  The results are local
\* to the call and are gone when it returns.
ProcRecord ==
  /\ bpc = "executing"
  /\ epc = "returned"
  /\ IF allSuccess THEN RecordTrade(cur.expectedProfit, TRUE)
                   ELSE RecordTrade(0, FALSE)
  /\ recordCalls' = recordCalls + 1
  /\ bpc' = "idle"
  /\ epc' = "idle"
  /\ ResetCall(<<>>, <<>>)
  /\ results' = <<>>
  /\ UNCHANGED <<cur, balance, evaluation, execCalls>>

NextBot ==
  \/ \E o \in Opportunities, b \in GetBalanceOutcomes :
       ProcessOpportunity(o, b) /\ UNCHANGED <<scanVars, detVars, mdsVars>>
  \/ ProcEvaluate /\ UNCHANGED <<scanVars, detVars, mdsVars>>
  \/ ProcExecute /\ UNCHANGED <<scanVars, detVars, mdsVars>>
  \/ \E out \in {"handle", "null", "threw"} : SeqCreateOrder(out)
  \/ \E out \in PostOutcomes(Len(results) + 1) : SeqPostOrder(out)
  \/ ProcRecord /\ UNCHANGED <<scanVars, detVars, mdsVars>>

SpecBot == InitExec /\ [][NextBot]_vars

----------------------------------------------------------------------------
\* The controller's scan loop (startScanLoop).  scan runs at once and then on
\* every timer tick; an invocation runs without interruption up to its next
\* await, where other callbacks (ticks, resolutions) may run.

Pass(pc, queue) == [pc |-> pc, queue |-> queue]

FreeSlots == { p \in 1 .. MaxPasses : passes[p].pc = "none" }
InFlightPasses == { p \in 1 .. MaxPasses : passes[p].pc # "none" }

\* What scanOpportunities hands over: a signal-only and an executable
\* opportunity, in lists of bounded length.
ScanOpportunities ==
  { o \in Opportunities : o.requiredCapital = 2 /\ o.risk = "LOW" }

Detections == SeqsUpTo(ScanOpportunities, MaxOpps)

\* finally: the flag is lowered and the pass is over.
EndPass(p) ==
  /\ passes' = [passes EXCEPT ![p] = NoPass]
  /\ isScanning' = FALSE

\* Mutant of ScanContinue: the emergency-stop return leaves the flag raised.
ScanContinueHoldingFlag(p, flag) ==
  IF shouldEmergencyStop
    THEN /\ ShouldEmergencyStop
         /\ passes' = [passes EXCEPT ![p] = NoPass]
         /\ isScanning' = TRUE
    ELSE /\ ResetDailyStats
         /\ passes' = [passes EXCEPT ![p] = Pass("detect", <<>>)]
         /\ isScanning' = flag

\* From shouldEmergencyStop to the await of scanOpportunities: an emergency
\* stop returns (through finally); otherwise resetDailyStats runs and the
\* detection is awaited.
ScanContinue(p, flag) ==
  IF shouldEmergencyStop
    THEN ShouldEmergencyStop /\ EndPass(p)
    ELSE /\ ResetDailyStats
         /\ passes' = [passes EXCEPT ![p] = Pass("detect", <<>>)]
         /\ isScanning' = flag

\* Mutant of ScanBody: the reentrancy flag is not tested.
ScanBodyUnguarded(running, refreshDue) ==
  IF ~running
    THEN lastTick' = "off" /\ UNCHANGED <<isScanning, passes, riskVars>>
    ELSE /\ FreeSlots # {}
         /\ lastTick' = "started"
         /\ LET p == CHOOSE q \in FreeSlots : \A r \in FreeSlots : q <= r
            IN  IF refreshDue
                  THEN /\ passes' = [passes EXCEPT ![p] = Pass("refresh", <<>>)]
                       /\ isScanning' = TRUE
                       /\ UNCHANGED riskVars
                  ELSE ScanContinue(p, TRUE)

\* One invocation of scan, from its entry to its first await: the two
\* guards, the flag, and the market refresh when it is due.
ScanBody(running, refreshDue) ==
  IF ~running
    THEN lastTick' = "off" /\ UNCHANGED <<isScanning, passes, riskVars>>
  ELSE IF isScanning
    THEN lastTick' = "skipped" /\ UNCHANGED <<isScanning, passes, riskVars>>
    ELSE /\ FreeSlots # {}
         /\ lastTick' = "started"
         /\ LET p == CHOOSE q \in FreeSlots : \A r \in FreeSlots : q <= r
            IN  IF refreshDue
                  THEN /\ passes' = [passes EXCEPT ![p] = Pass("refresh", <<>>)]
                       /\ isScanning' = TRUE
                       /\ UNCHANGED riskVars
                  ELSE ScanContinue(p, TRUE)

\* start(): the bot is running, scan is invoked at once (the markets were
\* just loaded) and the timer is armed.
Start ==
  /\ ~isRunning /\ ~timer /\ lastTick = "none"
  /\ isRunning' = TRUE
  /\ timer' = TRUE
  /\ ScanBody(TRUE, FALSE)
  /\ UNCHANGED <<execVars, botVars, detVars, mdsVars>>

\* A timer tick invokes scan.
Tick ==
  /\ timer
  /\ \E refreshDue \in BOOLEAN : ScanBody(isRunning, refreshDue)
  /\ UNCHANGED <<isRunning, timer, execVars, botVars, detVars, mdsVars>>

\* stop(): the flag is cleared and the timer disarmed; a pass in flight goes
\* on.
Stop ==
  /\ isRunning
  /\ isRunning' = FALSE
  /\ timer' = FALSE
  /\ UNCHANGED <<isScanning, passes, lastTick, execVars, riskVars, botVars, detVars, mdsVars>>

\* loadMarkets resolved (ok) or rejected (catch, then finally).
RefreshDone(p, ok) ==
  /\ passes[p].pc = "refresh"
  /\ IF ok THEN ScanContinue(p, isScanning)
           ELSE EndPass(p) /\ UNCHANGED riskVars
  /\ UNCHANGED <<isRunning, timer, lastTick, execVars, botVars, detVars, mdsVars>>

\* scanOpportunities resolved with a list of opportunities, or rejected.
DetectDone(p, threw, opps) ==
  /\ passes[p].pc = "detect"
  /\ IF threw THEN EndPass(p)
              ELSE /\ passes' = [passes EXCEPT ![p] = Pass("process", opps)]
                   /\ UNCHANGED isScanning
  /\ UNCHANGED <<isRunning, timer, lastTick, execVars, riskVars, botVars, detVars, mdsVars>>

\* The loop over the opportunities: processOpportunity for the next one,
\* once the previous one has returned.
ScanProcess(p, usdc) ==
  /\ passes[p].pc = "process"
  /\ passes[p].queue # <<>>
  /\ ProcessOpportunity(Head(passes[p].queue), usdc)
  /\ passes' = [passes EXCEPT ![p] = Pass("process", Tail(passes[p].queue))]
  /\ UNCHANGED <<isRunning, timer, isScanning, lastTick, detVars, mdsVars>>

\* After the loop: clearOldOpportunities, then getBalance is awaited.
ScanBalance(p) ==
  /\ passes[p].pc = "process"
  /\ passes[p].queue = <<>>
  /\ bpc = "idle"
  /\ passes' = [passes EXCEPT ![p] = Pass("balance", <<>>)]
  /\ UNCHANGED <<isRunning, timer, isScanning, lastTick, execVars, riskVars, botVars, detVars, mdsVars>>

\* getBalance resolved; finally.
ScanFinish(p) ==
  /\ passes[p].pc = "balance"
  /\ EndPass(p)
  /\ UNCHANGED <<isRunning, timer, lastTick, execVars, riskVars, botVars, detVars, mdsVars>>

NextScan ==
  \/ Start
  \/ Tick
  \/ Stop
  \/ \E p \in 1 .. MaxPasses, ok \in BOOLEAN : RefreshDone(p, ok)
  \/ \E p \in 1 .. MaxPasses : DetectDone(p, TRUE, <<>>)
  \/ \E p \in 1 .. MaxPasses, opps \in Detections : DetectDone(p, FALSE, opps)
  \/ \E p \in 1 .. MaxPasses, b \in GetBalanceOutcomes : ScanProcess(p, b)
  \/ \E p \in 1 .. MaxPasses : ScanBalance(p)
  \/ \E p \in 1 .. MaxPasses : ScanFinish(p)
  \/ ProcEvaluate /\ UNCHANGED <<scanVars, detVars, mdsVars>>
  \/ ProcExecute /\ UNCHANGED <<scanVars, detVars, mdsVars>>
  \/ \E out \in {"handle", "null", "threw"} : SeqCreateOrder(out)
  \/ \E out \in PostOutcomes(Len(results) + 1) : SeqPostOrder(out)
  \/ ProcRecord /\ UNCHANGED <<scanVars, detVars, mdsVars>>
  \/ AdvanceClock /\ UNCHANGED <<execVars, botVars, scanVars, detVars, mdsVars>>

SpecScan == InitExec /\ [][NextScan]_vars

\* The controller with opportunities whose requiredCapital is what their legs
\* cost (the sum of price x amount), all money in units of 1e-5, under
\* position limits below and above that cost.
RECURSIVE Cost(_)
Cost(legs) ==
  IF legs = <<>> THEN 0
  ELSE Head(legs).price * Head(legs).amount + Cost(Tail(legs))

CapLegs ==
  { << Trade("YES", "BUY", 49000, 1) >>,
    << Trade("YES", "BUY", 49000, 1), Trade("NO", "BUY", 50000, 1) >> }

CapOpportunities == { Opportunity(Cost(legs), 4, "LOW", legs) : legs \in CapLegs }

CapConfigs ==
  [maxPositionSize : {50000, 100000}, minPositionSize : {10000},
   dailyMaxLoss : {5}, maxConcurrentPositions : {2},
   enableRiskManagement : BOOLEAN]

CapBalances == {40000, 500000}

InitCap ==
  /\ ExecInit /\ BotInit /\ ScanInit /\ DetInit(1, <<"PRICE_IMBALANCE">>)
  /\ MdsInit
  /\ cfg \in CapConfigs
  /\ positions = <<>>
  /\ dailyPnL = 0
  /\ dailyStartTime = 0
  /\ stats = InitialStats
  /\ now = 0
  /\ lastEval = NotEvaluated
  /\ lastStop = NotAsked

NextCap ==
  \/ \E o \in CapOpportunities, b \in CapBalances :
       ProcessOpportunity(o, b) /\ UNCHANGED <<scanVars, detVars, mdsVars>>
  \/ ProcEvaluate /\ UNCHANGED <<scanVars, detVars, mdsVars>>
  \/ ProcExecute /\ UNCHANGED <<scanVars, detVars, mdsVars>>
  \/ \E out \in {"handle", "null", "threw"} : SeqCreateOrder(out)
  \/ \E out \in PostOutcomes(Len(results) + 1) : SeqPostOrder(out)
  \/ ProcRecord /\ UNCHANGED <<scanVars, detVars, mdsVars>>

SpecCap == InitCap /\ [][NextCap]_vars

\* The scan loop under daily limits small enough for the accumulated profit
\* of the trades of a run to reach 80% of them.
StopConfigs ==
  [maxPositionSize : {3}, minPositionSize : {2}, dailyMaxLoss : {1, 2},
   maxConcurrentPositions : {2}, enableRiskManagement : BOOLEAN]

InitStop ==
  /\ ExecInit /\ BotInit /\ ScanInit /\ DetInit(1, <<"PRICE_IMBALANCE">>)
  /\ MdsInit
  /\ cfg \in StopConfigs
  /\ positions = <<>>
  /\ dailyPnL = 0
  /\ dailyStartTime = 0
  /\ stats = InitialStats
  /\ now = 0
  /\ lastEval = NotEvaluated
  /\ lastStop = NotAsked

SpecStop == InitStop /\ [][NextScan]_vars

----------------------------------------------------------------------------
\* The detector on its own: scans of one market under the price-imbalance
\* strategy, scans of the mock market under the mean-reversion strategy, and
\* PriceHistory driven directly.

Thresholds == {1, 50}

MockMarket == Market("MOCK_MARKET", <<"YES", "NO">>)

Markets ==
  { MockMarket, Market("NO_TOKEN_ID", <<"YES", "">>), Market("UNARY", <<"YES">>) }

ImbalanceQuotes ==
  { NoPrices, BestPrices(490, 490), BestPrices(500, 500), BestPrices(400, 500),
    BestPrices(450, 450), BestPrices(400, 520) }

MeanReversionQuotes == { NoPrices, BestPrices(500, 500), BestPrices(700, 700) }

HistoryPrices == {1000, 1001, 1400}

InitDetector(strategies, thresholds) ==
  /\ ExecInit /\ RiskInit /\ BotInit /\ ScanInit /\ MdsInit
  /\ cfg = [maxPositionSize |-> 3, minPositionSize |-> 2, dailyMaxLoss |-> 5,
            maxConcurrentPositions |-> 2, enableRiskManagement |-> TRUE]
  /\ \E threshold \in thresholds : DetInit(threshold, strategies)

NextDetect ==
  \E market \in Markets, quotes \in [TokenIds -> ImbalanceQuotes] :
    scanOpportunities(<<market>>, quotes)

SpecDetect == InitDetector(<<"PRICE_IMBALANCE">>, Thresholds) /\ [][NextDetect]_vars

\* The detector's opportunities handed to evaluateOpportunity, as the scan
\* loop does for each opportunity of a scan; all money in units of 1e-5.
\* The profit percentage is compared with the whole number 5 only, so its
\* whole part stands for it.
AsEvaluated(o) ==
  [id |-> o.id, strategy |-> o.strategy, requiredCapital |-> o.requiredCapital,
   expectedProfit |-> o.expectedProfit,
   profitPercentage |-> IF o.pctDen = 0 THEN 100 ELSE o.pctNum \div o.pctDen,
   risk |-> o.risk, trades |-> o.trades]

EvaluateDetected(k, usdc) ==
  /\ k \in 1 .. Len(opportunities)
  /\ EvaluateOpportunity(AsEvaluated(opportunities[k]), usdc)
  /\ UNCHANGED <<execVars, botVars, scanVars, detVars, mdsVars>>

\* Validated configurations (0 < minPositionSize <= maxPositionSize) with a
\* minimum of half a dollar, one dollar and two dollars.
VetConfigs ==
  { c \in [maxPositionSize : {Money(ONE), Money(3 * ONE)},
           minPositionSize : {Money(500), Money(ONE), Money(2 * ONE)},
           dailyMaxLoss : {Money(50 * ONE)}, maxConcurrentPositions : {2},
           enableRiskManagement : BOOLEAN] :
      c.minPositionSize <= c.maxPositionSize }

VetBalances == {Money(500), Money(10 * ONE)}

InitVet ==
  /\ ExecInit /\ BotInit /\ ScanInit /\ MdsInit
  /\ \E threshold \in Thresholds : DetInit(threshold, <<"PRICE_IMBALANCE">>)
  /\ cfg \in VetConfigs
  /\ positions = <<>>
  /\ dailyPnL = 0
  /\ dailyStartTime = 0
  /\ stats = InitialStats
  /\ now = 0
  /\ lastEval = NotEvaluated
  /\ lastStop = NotAsked

NextVet ==
  \/ \E market \in Markets, quotes \in [TokenIds -> ImbalanceQuotes] :
       scanOpportunities(<<market>>, quotes)
  \/ \E k \in DOMAIN opportunities, usdc \in VetBalances : EvaluateDetected(k, usdc)

SpecVet == InitVet /\ [][NextVet]_vars

\* The running controller fed by the detector: what a scan of the mock
\* market emits under the price-imbalance strategy is what the scan loop
\* processes; all money in units of 1e-5.
RECURSIVE AllEvaluated(_)
AllEvaluated(opps) ==
  IF opps = <<>> THEN <<>>
  ELSE << AsEvaluated(Head(opps)) >> \o AllEvaluated(Tail(opps))

DailyConfigs ==
  [maxPositionSize : {Money(ONE)}, minPositionSize : {Money(100)},
   dailyMaxLoss : {8000, 20000}, maxConcurrentPositions : {2},
   enableRiskManagement : BOOLEAN]

DailyBalances == {0, Money(10 * ONE)}

\* No quote, an ask sum of 1 (nothing to buy), and ask sums of 0.90 and 0.95.
DailyQuotes == { NoPrices, BestPrices(500, 500), BestPrices(450, 450) }

InitDaily ==
  /\ ExecInit /\ BotInit /\ ScanInit /\ MdsInit
  /\ DetInit(1, <<"PRICE_IMBALANCE">>)
  /\ cfg \in DailyConfigs
  /\ positions = <<>>
  /\ dailyPnL = 0
  /\ dailyStartTime = 0
  /\ stats = InitialStats
  /\ now = 0
  /\ lastEval = NotEvaluated
  /\ lastStop = NotAsked

NextDaily ==
  \/ Start
  \/ Tick
  \/ Stop
  \/ \E p \in 1 .. MaxPasses, ok \in BOOLEAN : RefreshDone(p, ok)
  \/ \E p \in 1 .. MaxPasses : DetectDone(p, TRUE, <<>>)
  \/ \E p \in 1 .. MaxPasses, quotes \in [TokenIds -> DailyQuotes] :
       DetectDone(p, FALSE, AllEvaluated(
         detectPriceImbalance(MockMarket, quotes, minProfitThreshold)))
  \/ \E p \in 1 .. MaxPasses, b \in DailyBalances : ScanProcess(p, b)
  \/ \E p \in 1 .. MaxPasses : ScanBalance(p)
  \/ \E p \in 1 .. MaxPasses : ScanFinish(p)
  \/ ProcEvaluate /\ UNCHANGED <<scanVars, detVars, mdsVars>>
  \/ ProcExecute /\ UNCHANGED <<scanVars, detVars, mdsVars>>
  \/ \E out \in {"handle", "null", "threw"} : SeqCreateOrder(out)
  \/ \E out \in PostOutcomes(Len(results) + 1) : SeqPostOrder(out)
  \/ ProcRecord /\ UNCHANGED <<scanVars, detVars, mdsVars>>
  \/ AdvanceClock /\ UNCHANGED <<execVars, botVars, scanVars, detVars, mdsVars>>

SpecDaily == InitDaily /\ [][NextDaily]_vars

TimeBasedScan(prices) ==
  /\ Len(history["YES"]) < MaxScans
  /\ scanOpportunities(<<MockMarket>>, [t \in TokenIds |->
                         IF t = "YES" THEN prices ELSE NoPrices])

NextMeanReversion == \E prices \in MeanReversionQuotes : TimeBasedScan(prices)

SpecMeanReversion == InitDetector(<<"TIME_BASED">>, {1}) /\ [][NextMeanReversion]_vars

NextHistory ==
  \/ \E price \in HistoryPrices : Record("YES", price)
  \/ AdvanceMinute

SpecHistory == InitDetector(<<"TIME_BASED">>, {1}) /\ [][NextHistory]_vars

\* PriceHistory fed one price for one instrument for as long as one likes:
\* the window fills up to MAX_HISTORY_SIZE.
RecordFill(tokenId, price) ==
  /\ history' = record(history, tokenId, price, minute)
  /\ UNCHANGED <<minProfitThreshold, enabledStrategies, opportunities, minute,
                 scanned>>
  /\ UNCHANGED <<execVars, riskVars, botVars, scanVars, mdsVars>>

NextWindow ==
  \/ RecordFill("YES", 1000)
  \/ AdvanceMinute

SpecWindow == InitDetector(<<"TIME_BASED">>, {1}) /\ [][NextWindow]_vars

\* PriceHistory fed one instrument while time passes in steps of half the
\* window, so that samples age out one group at a time.
EvictionSteps == {15}

Elapse(d) ==
  /\ minute + d <= MaxMinute
  /\ minute' = minute + d
  /\ UNCHANGED <<minProfitThreshold, enabledStrategies, opportunities, history,
                 scanned>>
  /\ UNCHANGED <<execVars, riskVars, botVars, scanVars, mdsVars>>

NextEviction ==
  \/ RecordFill("YES", 1000)
  \/ \E d \in EvictionSteps : Elapse(d)

SpecEviction == InitDetector(<<"TIME_BASED">>, {1}) /\ [][NextEviction]_vars

\* Readers of the order-book cache: calls of getOrderBook that interleave
\* at their awaits while time passes.
NextCache ==
  \/ \E r \in Readers, tokenId \in CachedTokens : GetOrderBook(r, tokenId)
  \/ \E r \in Readers, response \in Responses : FetchSettles(r, response)
  \/ \E r \in Readers : BackoffEnds(r)
  \/ \E r \in Readers : ReaderDone(r)
  \/ CacheTick

SpecCache == InitExec /\ [][NextCache]_vars

\* Calls of the atomic executeTrades with legs of any price: a non-finite
\* one (NaN), 0, below 0.001, inside [0.001, 0.999], 0.999, 1 and above 1;
\* the books have levels exactly at, inside and outside the limits.
LimitPrices == {NaN, 0, 50, 100, 49000, 50000, 99000, 99900, 100000, 150000}

LimitBatches ==
  { << Trade("YES", side, price, amount) >> :
      side \in {"BUY", "SELL"}, price \in LimitPrices, amount \in 1 .. MaxLegs }
  \cup { << Trade("YES", "BUY", 49000, 1), Trade("NO", "SELL", 50000, 1) >> }

DepthBooks ==
  { NullBook,
    OrderBook(<<>>, <<>>),
    OrderBook(<<Level(100, MaxLegs)>>, <<Level(99900, MaxLegs)>>),
    OrderBook(<<Level(49490, 1), Level(49500, 1)>>,
              <<Level(49500, 1), Level(49490, 1)>>) }

CallWithAnyPrice ==
  /\ epc \in {"idle", "returned"}
  /\ \E batch \in LimitBatches : EnterExecuteTrades(batch)
  /\ UNCHANGED <<riskVars, botVars, scanVars, detVars, mdsVars>>

NextLimit ==
  \/ CallWithAnyPrice
  \/ \E book \in DepthBooks : PreCheck(book)
  \/ \E i \in Legs, out \in {"handle", "null", "threw"} : CreateResolve(i, out)
  \/ \E i \in Legs : \E out \in PostOutcomes(i) : PostResolve(i, out)
  \/ PostAllResolved
  \/ \E ok \in BOOLEAN : CancelOrder(ok)
  \/ RollbackReturn

SpecLimit == InitExec /\ [][NextLimit]_vars

\* The atomic executor with its L2 session: a client calls
\* authenticateForTrading and executeTrades in any order.
NextAuth ==
  \/ AuthenticateForTrading
  \/ \E ok \in BOOLEAN : DeriveApiKeySettles(ok)
  \/ NextExec

SpecAuth == InitExec /\ [][NextAuth]_vars

\* Calls of getActiveMarkets, one at a time, with every outcome of every
\* attempt.  An attempt settles (the fetch is aborted after 10 s) and a
\* timer fires, so a step of a call in progress is eventually taken.
RawMarkets == { RawMarket("A", 5), RawMarket("B", 9), RawMarket("C", 5) }

Payloads ==
  { Payload(kind, markets) : kind \in {"array", "wrapped"},
                             markets \in SeqsUpTo(RawMarkets, 2) }
  \cup { Payload("other", <<>>), Payload("unmappable", << RawMarket("A", 5) >>) }

Categories == {"", "crypto"}

FetchProgress ==
  \/ AttemptFails
  \/ WaitEnds
  \/ \E data \in Payloads : AttemptSucceeds(data)

NextFetch ==
  \/ \E category \in Categories : GetActiveMarkets(category)
  \/ FetchProgress

SpecFetch == InitExec /\ [][NextFetch]_vars /\ WF_vars(FetchProgress)

\* Scans under the cross-market strategy.  The markets of a scan are drawn
\* from a pool, in the pool's order: two binary markets about one asset
\* with nested thresholds and different categories, between them a market
\* of the same family without tokens, two three-outcome markets with nested
\* thresholds, and two binary markets of one category whose questions are
\* similar but name no threshold.
MaxMarkets == 3

Binary(id, question, category) ==
  MarketAbout(id, << id \o "_YES", id \o "_NO" >>, question, category)

MarketPool ==
  << Binary("BTC_90K", <<"will", "btc", "hit", "90k", "this", "year">>, "crypto"),
     MarketAbout("BTC_110K", <<>>, <<"will", "btc", "hit", "110k", "this", "year">>,
                 "crypto"),
     Binary("BTC_100K", <<"will", "btc", "hit", "100k", "this", "year">>, "finance"),
     MarketAbout("ETH_3K", <<"ETH_3K_A", "ETH_3K_B", "ETH_3K_C">>,
                 <<"eth", "above", "3k">>, "crypto"),
     MarketAbout("ETH_4K", <<"ETH_4K_A", "ETH_4K_B", "ETH_4K_C">>,
                 <<"eth", "above", "4k">>, "crypto"),
     Binary("OHIO", <<"who", "wins", "the", "2028", "election", "in", "ohio">>,
            "politics"),
     Binary("IOWA", <<"who", "wins", "the", "2028", "election", "in", "iowa">>,
            "politics") >>

SubSeqAt(seq, S) ==
  LET F[i \in 0 .. Len(seq)] ==
        IF i = 0 THEN <<>>
        ELSE IF i \in S THEN Append(F[i - 1], seq[i]) ELSE F[i - 1]
  IN  F[Len(seq)]

MarketLists ==
  { SubSeqAt(MarketPool, S) :
      S \in { T \in SUBSET (1 .. Len(MarketPool)) : Cardinality(T) <= MaxMarkets } }

CrossQuotes ==
  { NoPrices, LookupThrows, BestPrices(400, 400), BestPrices(415, 415),
    BestPrices(440, 440), BestPrices(900, 900) }

OtherQuotes == { LookupThrows, BestPrices(450, 450) }

FirstTokens(markets) ==
  { markets[i].tokens[1] : i \in { j \in DOMAIN markets : markets[j].tokens # <<>> } }

OtherTokens(markets) ==
  UNION { { markets[i].tokens[k] : k \in 2 .. Len(markets[i].tokens) } :
          i \in DOMAIN markets }

\* The first token of every market has a quote of its own, the other
\* tokens share one.
QuotesOf(markets) ==
  { first @@ [t \in OtherTokens(markets) |-> other] :
      first \in [FirstTokens(markets) -> CrossQuotes], other \in OtherQuotes }

InitCross ==
  /\ ExecInit /\ RiskInit /\ BotInit /\ ScanInit /\ MdsInit
  /\ cfg = [maxPositionSize |-> 3, minPositionSize |-> 2, dailyMaxLoss |-> 5,
            maxConcurrentPositions |-> 2, enableRiskManagement |-> TRUE]
  /\ minProfitThreshold \in Thresholds
  /\ enabledStrategies = <<"PRICE_IMBALANCE", "CROSS_MARKET">>
  /\ opportunities = <<>>
  /\ history = [t \in TokenIds |-> <<>>]
  /\ minute = 0
  /\ \E markets \in MarketLists : \E quotes \in QuotesOf(markets) :
       scanned = [called |-> FALSE, markets |-> markets, quotes |-> quotes]

NextCross == scanOpportunities(scanned.markets, scanned.quotes)

SpecCross == InitCross /\ [][NextCross]_vars

----------------------------------------------------------------------------
\* Claims about executeTrades.

Returned == epc = "returned"

\* Leg i's order book does not cover the leg at its slippage-adjusted limit
\* price.
DepthFails(i) ==
  /\ i \in DOMAIN books
  /\ ~checkFillable(trades[i], applySlippageLimit(trades[i]), books[i])

\* postOrder answered for leg i with a status string.
Reported(i) == posts[i].kind = "ok" /\ posts[i].raw \in RawStatuses
ReportedStatus(i) == mapOrderStatus(posts[i].raw)

AllFailed ==
  /\ Len(results) = Len(trades)
  /\ \A i \in Legs : results[i].status = "FAILED"

\* C1: all-or-nothing.  When executeTrades has returned for a non-empty
\* batch, either no leg's result is FAILED or no order of the batch that the
\* exchange acknowledged is left open there (each one has been cancelled).
C1_AllOrNothing ==
  (Returned /\ Len(trades) > 0) =>
    \/ \A i \in DOMAIN results : results[i].status # "FAILED"
    \/ \A i \in Legs : posts[i].kind = "ok" => exchange[i] # "open"

\* C2: if the depth pre-check fails for some leg of the batch, executeTrades
\* has called createOrder and postOrder zero times when it returns, and every
\* leg's result is FAILED.
C2_PrecheckFailureSubmitsNothing ==
  (Returned /\ \E i \in Legs : DepthFails(i)) =>
    createCalls = 0 /\ postCalls = 0 /\ AllFailed

\* C2 for the atomic executor alone (holds under SpecExec).
C2_AtomicPrecheck ==
  (epc # "idle" /\ \E i \in Legs : DepthFails(i)) =>
    /\ createCalls = 0 /\ postCalls = 0
    /\ Returned => AllFailed

\* C3: if every leg was posted and some posted order reports FAILED while
\* another leg reported FILLED or PENDING, then on return exactly one
\* cancelOrder request was issued for each leg that reported FILLED or
\* PENDING (and none for the others), and every leg of the returned batch is
\* FAILED with the rollback reason and keeps its order id.
C3_RollbackCancelsAndFailsAll ==
  (/\ Returned
   /\ \A i \in Legs : Reported(i)
   /\ \E i \in Legs : ReportedStatus(i) = "FAILED"
   /\ \E i \in Legs : ReportedStatus(i) \in {"FILLED", "PENDING"}) =>
    /\ \A i \in Legs :
         cancelReqs[i] = IF ReportedStatus(i) \in {"FILLED", "PENDING"} THEN 1 ELSE 0
    /\ AllFailed
    /\ \A i \in Legs : results[i].error = ErrRollback /\ results[i].orderId = posts[i].orderID

\* The exception messages raised inside the try block of the atomic
\* executeTrades in the current call.
Thrown ==
  { ErrPrecheck(i) : i \in { j \in Legs : j = Len(limitPrices) + 1 /\ DepthFails(j) } }
  \cup { ErrCreateThrew(i) : i \in { j \in Legs : orders[j] = "threw" } }
  \cup { ErrCreateNull(i) : i \in { j \in Legs :
           /\ \A k \in Legs : orders[k] \in {"handle", "null"}
           /\ orders[j] = "null"
           /\ \A k \in 1 .. (j - 1) : orders[k] # "null" } }
  \cup { ErrPostThrew(i) : i \in { j \in Legs : posts[j].kind = "threw" } }
  \cup { ErrStatusMap(i) : i \in { j \in Legs :
           /\ \A k \in Legs : posts[k].kind = "ok"
           /\ posts[j].raw = NonStringStatus
           /\ \A k \in 1 .. (j - 1) : posts[k].raw # NonStringStatus } }

\* C4: no exception escapes the atomic executeTrades.  If the depth check,
\* createOrder (also by a null handle), postOrder or the result mapping threw,
\* the call returned one result per input leg, each FAILED with empty order
\* id, zero filled amount and the message of the exception; and the call is
\* never stuck before its return.
C4_ExceptionsBecomeFailedResults ==
  /\ (Returned /\ Thrown # {}) =>
       /\ Len(results) = Len(trades)
       /\ \E e \in Thrown : \A i \in Legs :
            results[i] = OrderResult(0, "FAILED", 0, 0, e)
  /\ (epc \notin {"idle", "returned"}) =>
       \/ ENABLED (\E book \in BookSet : PreCheck(book))
       \/ \E i \in Legs : ENABLED CreateResolve(i, "handle")
       \/ \E i \in Legs : ENABLED PostResolve(i, [kind |-> "threw", raw |-> "",
                                                 orderID |-> 0, accepted |-> FALSE])
       \/ ENABLED PostAllResolved
       \/ ENABLED CancelOrder(TRUE)
       \/ ENABLED RollbackReturn

\* Witness of C4: a call returned after postOrder threw for the second leg
\* while the first leg's order had been taken by the exchange.
C4_Witness ==
  /\ Returned /\ Len(trades) = 2
  /\ posts[2].kind = "threw" /\ posts[1].kind = "ok"
  /\ results[1].error = ErrPostThrew(2)

----------------------------------------------------------------------------
\* Claims about RiskManager.evaluateOpportunity.

\* The evaluation that just returned, with risk management enabled, of an
\* opportunity that has trade legs.
EvaluatedEnabled ==
  lastEval.called /\ cfg.enableRiskManagement /\ Len(lastEval.opportunity.trades) > 0

DailyLimitReached == Abs(dailyPnL) >= cfg.dailyMaxLoss
BalanceShort(o, usdc) == usdc < o.requiredCapital
Oversize(o) == o.requiredCapital > cfg.maxPositionSize
BelowMinimum(o) == o.requiredCapital < cfg.minPositionSize
PositionsAtCap == Len(positions) >= cfg.maxConcurrentPositions
HighRiskBelowFloor(o) == o.risk = "HIGH" /\ o.profitPercentage < 5

\* The first failing check in the order daily-loss limit, balance, minimum
\* size, open-position cap, high-risk profit floor.
FirstFailing(o, usdc) ==
  IF DailyLimitReached THEN "DAILY_MAX_LOSS"
  ELSE IF BalanceShort(o, usdc) THEN "INSUFFICIENT_BALANCE"
  ELSE IF BelowMinimum(o) THEN "BELOW_MIN_SIZE"
  ELSE IF PositionsAtCap THEN "MAX_POSITIONS"
  ELSE IF HighRiskBelowFloor(o) THEN "HIGH_RISK_PROFIT"
  ELSE "NONE"

ResetCleared == dailyStartTime' # dailyStartTime
\* recordTrade(profit, true) ran in this step.
SuccessRecorded == stats'.successfulTrades # stats.successfulTrades

\* C7 as claimed: once the absolute daily P&L has reached dailyMaxLoss it
\* stays there (and evaluateOpportunity keeps rejecting) until resetDailyStats
\* clears the accumulator.
C7_RejectsUntilReset ==
  [][(DailyLimitReached /\ ~ResetCleared) => DailyLimitReached']_vars

\* C7 amended: with risk management enabled, evaluateOpportunity rejects
\* every opportunity while the absolute daily P&L is at least dailyMaxLoss,
\* and that state ends only by a clearing resetDailyStats or by a successful
\* recordTrade.
C7_RejectsWhileLimitReached ==
  /\ [](lastEval.called /\ cfg.enableRiskManagement /\ DailyLimitReached
          => ~lastEval.result.approved)
  /\ [][(DailyLimitReached /\ ~ResetCleared /\ ~SuccessRecorded)
          => DailyLimitReached']_vars

\* Witness of C7: after recorded trades brought the accumulator to the limit
\* by profits, an executable opportunity the balance covers was rejected.
C7_Witness ==
  /\ EvaluatedEnabled
  /\ dailyPnL >= cfg.dailyMaxLoss
  /\ stats.successfulTrades >= 2
  /\ ~BalanceShort(lastEval.opportunity, lastEval.usdc)
  /\ ~lastEval.result.approved

\* C8: with risk management enabled, no opportunity is approved while the
\* number of open positions is at least maxConcurrentPositions.
C8_NoApprovalAtPositionCap ==
  (EvaluatedEnabled /\ PositionsAtCap) => ~lastEval.result.approved

\* C9 as claimed: with risk management enabled, the daily-loss limit not
\* reached and the balance covering the required capital, every opportunity
\* above maxPositionSize is approved at maxPositionSize; every approval has
\* adjustedSize at most maxPositionSize.
C9_OversizeApprovedAtCap ==
  (lastEval.called /\ cfg.enableRiskManagement) =>
    LET o == lastEval.opportunity
        r == lastEval.result
    IN  /\ (~DailyLimitReached /\ ~BalanceShort(o, lastEval.usdc) /\ Oversize(o))
             => (r.approved /\ r.adjustedSize = cfg.maxPositionSize)
        /\ r.approved => r.adjustedSize <= cfg.maxPositionSize

\* C9 amended: the same for opportunities that have at least one trade leg.
C9_OversizeWithLegsApprovedAtCap ==
  (lastEval.called /\ cfg.enableRiskManagement) =>
    LET o == lastEval.opportunity
        r == lastEval.result
    IN  /\ (/\ Len(o.trades) > 0
            /\ ~DailyLimitReached /\ ~BalanceShort(o, lastEval.usdc) /\ Oversize(o))
             => (r.approved /\ r.adjustedSize = cfg.maxPositionSize)
        /\ r.approved => r.adjustedSize <= cfg.maxPositionSize

\* Witness of C9: an oversize opportunity was approved at maxPositionSize.
C9_Witness ==
  /\ EvaluatedEnabled
  /\ Oversize(lastEval.opportunity)
  /\ lastEval.result.approved
  /\ lastEval.result.adjustedSize = cfg.maxPositionSize
  /\ lastEval.result.adjustedSize < lastEval.opportunity.requiredCapital

\* C10: with risk management disabled, every opportunity that has at least
\* one trade leg is approved with adjustedSize equal to its required capital.
C10_DisabledApprovesAll ==
  (lastEval.called /\ ~cfg.enableRiskManagement
     /\ Len(lastEval.opportunity.trades) > 0) =>
    /\ lastEval.result.approved
    /\ lastEval.result.adjustedSize = lastEval.opportunity.requiredCapital

\* Witness of C10: approved with risk management disabled although the
\* daily-loss limit is reached, the balance is short, the positions are at
\* the cap and the opportunity is high-risk below the profit floor.
C10_Witness ==
  /\ lastEval.called /\ ~cfg.enableRiskManagement
  /\ Len(lastEval.opportunity.trades) > 0
  /\ DailyLimitReached /\ PositionsAtCap
  /\ BalanceShort(lastEval.opportunity, lastEval.usdc)
  /\ HighRiskBelowFloor(lastEval.opportunity)
  /\ lastEval.result.approved

----------------------------------------------------------------------------
\* Claims about the controller.

Processing == "trades" \in DOMAIN cur

\* C5: a signal-only opportunity (empty trade list) is rejected by
\* evaluateOpportunity in every configuration and state, and the controller
\* calls neither executeTrades nor recordTrade for it.
C5_SignalOnlyNeverExecuted ==
  (Processing /\ Len(cur.trades) = 0) =>
    /\ "approved" \in DOMAIN evaluation => ~evaluation.approved
    /\ bpc \in {"idle", "evaluate"}
    /\ execCalls = 0
    /\ recordCalls = 0

\* Witness of C5: with risk management disabled and a balance covering the
\* capital, processOpportunity returned after the rejection of a signal-only
\* opportunity.
C5_Witness ==
  /\ Processing /\ Len(cur.trades) = 0
  /\ ~cfg.enableRiskManagement
  /\ balance >= cur.requiredCapital
  /\ "approved" \in DOMAIN evaluation /\ ~evaluation.approved
  /\ evaluation.reason = "SIGNAL_ONLY"
  /\ bpc = "idle"

----------------------------------------------------------------------------
\* Claims about the other methods of RiskManager.

\* The daily-loss check of evaluateOpportunity rejected in the current state.
DailyCheckRejected ==
  /\ lastEval.called
  /\ ~lastEval.result.approved
  /\ lastEval.result.reason = "DAILY_MAX_LOSS"

\* C11: shouldEmergencyStop answers true exactly when the absolute daily P&L
\* is at least four fifths of dailyMaxLoss; wherever the daily-loss check of
\* evaluateOpportunity rejects, shouldEmergencyStop answers true; and a call
\* of shouldEmergencyStop changes nothing of the risk manager's state.
C11_EmergencyStopAtEightyPercent ==
  /\ [](lastStop.called =>
          (lastStop.result <=> 5 * Abs(dailyPnL) >= 4 * cfg.dailyMaxLoss))
  /\ []((DailyCheckRejected /\ lastStop.called) => lastStop.result)
  /\ [][(lastStop'.called /\ lastStop' # lastStop) =>
          UNCHANGED <<cfg, positions, dailyPnL, dailyStartTime, stats, lastEval>>]_vars

\* Witness of C11: shouldEmergencyStop answered true at 80% of the limit,
\* below the limit itself.
C11_Witness ==
  /\ lastStop.called /\ lastStop.result
  /\ 5 * Abs(dailyPnL) = 4 * cfg.dailyMaxLoss
  /\ ~DailyLimitReached

\* C12: recordTrade(profit, false) adds one to the failure counter and, for
\* every profit value, leaves the success counter, gross profit, gross loss,
\* net profit, largest profit, largest loss and the daily P&L accumulator as
\* they were.
C12_FailedTradeOnlyCountsFailure ==
  [][\A p \in Profits :
       RecordTrade(p, FALSE) =>
         /\ stats'.failedTrades = stats.failedTrades + 1
         /\ stats'.successfulTrades = stats.successfulTrades
         /\ stats'.totalProfit = stats.totalProfit
         /\ stats'.totalLoss = stats.totalLoss
         /\ stats'.netProfit = stats.netProfit
         /\ stats'.largestProfit = stats.largestProfit
         /\ stats'.largestLoss = stats.largestLoss
         /\ dailyPnL' = dailyPnL]_vars

\* Witness of C12: a failed trade was recorded after a successful one that
\* moved the accumulator and the gross profit.
C12_Witness ==
  /\ stats.failedTrades = 1
  /\ stats.successfulTrades = 1
  /\ stats.totalProfit > 0
  /\ dailyPnL = stats.totalProfit

\* C13: resetDailyStats zeroes the daily P&L accumulator and restarts the
\* period if and only if at least 24 hours have passed since the period
\* started; otherwise it changes neither; in both cases the cumulative
\* statistics and the open positions stay as they were.
C13_ResetOnlyAfterADay ==
  [][ResetDailyStats =>
       /\ IF now - dailyStartTime >= 24
            THEN dailyPnL' = 0 /\ dailyStartTime' = now
            ELSE dailyPnL' = dailyPnL /\ dailyStartTime' = dailyStartTime
       /\ stats' = stats
       /\ positions' = positions]_vars

\* Witness of C13: the accumulator was cleared a day after construction,
\* with trades on record and a position open.
C13_Witness ==
  /\ dailyStartTime = 24
  /\ dailyPnL = 0
  /\ stats.netProfit # 0
  /\ Len(positions) > 0

----------------------------------------------------------------------------
\* Claims about the controller and the positions.

\* C14: whenever the controller has executed an approved batch and every leg
\* is FILLED, a position for the traded market is added to the risk manager,
\* so the number of open positions grows.
C14_PositionsCreatedOnFill ==
  [][(ProcRecord /\ allSuccess) => Len(positions') > Len(positions)]_vars

\* C15: at most one scan pass is in flight at any time, and a timer tick
\* that fires while a pass is in flight starts no pass and touches neither
\* the risk manager, nor the executor, nor processOpportunity.
C15_ScanLoopIsReentrancyGuarded ==
  /\ [](Cardinality(InFlightPasses) <= 1)
  /\ [][(Tick /\ InFlightPasses # {}) =>
          UNCHANGED <<passes, isScanning, riskVars, execVars, botVars>>]_vars

\* Witness of C15: a tick was skipped while the pass in flight was awaiting
\* the executor inside processOpportunity.
C15_Witness ==
  /\ lastTick = "skipped"
  /\ \E p \in InFlightPasses : passes[p].pc = "process"
  /\ bpc = "executing"
  /\ epc = "seqCreate"

----------------------------------------------------------------------------
\* Claims about the detector's price-imbalance strategy (SpecDetect).

\* The last scan looked at one binary market with both token ids and got a
\* quote for both tokens.
ScannedBinaryWithQuotes ==
  /\ scanned.called
  /\ "PRICE_IMBALANCE" \in { enabledStrategies[i] : i \in DOMAIN enabledStrategies }
  /\ Len(scanned.markets[1].tokens) = 2
  /\ scanned.markets[1].tokens[1] # ""
  /\ scanned.markets[1].tokens[2] # ""
  /\ scanned.quotes[scanned.markets[1].tokens[1]].ok
  /\ scanned.quotes[scanned.markets[1].tokens[2]].ok

\* ask(YES) + ask(NO) of the last scan, in mills.
ScannedAskSum ==
  scanned.quotes[scanned.markets[1].tokens[1]].ask
    + scanned.quotes[scanned.markets[1].tokens[2]].ask

\* bid + ask of both tokens: twice the mid-price sum, in mills.
ScannedQuoteSum ==
  ScannedAskSum + scanned.quotes[scanned.markets[1].tokens[1]].bid
    + scanned.quotes[scanned.markets[1].tokens[2]].bid

\* (1 - askSum) - 2 * 0.01 * askSum, in 1e-5 units.
FeeFormulaProfit(askSum) == 100 * (ONE - askSum) - 2 * askSum

\* askSum < 1, net profit positive, net profit / askSum * 100 at least the
\* threshold.
AskCondition ==
  /\ ScannedAskSum < ONE
  /\ FeeFormulaProfit(ScannedAskSum) > 0
  /\ FeeFormulaProfit(ScannedAskSum) * 10 >= minProfitThreshold * ScannedAskSum

\* mid-price sum < 1 and (1 - midSum) / midSum * 100 at least the threshold.
MidCondition ==
  /\ ScannedQuoteSum < 2 * ONE
  /\ (2 * ONE - ScannedQuoteSum) * 1000 >= minProfitThreshold * ScannedQuoteSum

PriceImbalanceEmitted ==
  \E i \in DOMAIN opportunities : opportunities[i].strategy = "PRICE_IMBALANCE"

BuyBothEmitted ==
  \E i \in DOMAIN opportunities :
    /\ opportunities[i].strategy = "PRICE_IMBALANCE"
    /\ opportunities[i].trades # <<>>

SignalEmitted ==
  \E i \in DOMAIN opportunities :
    /\ opportunities[i].strategy = "PRICE_IMBALANCE"
    /\ opportunities[i].trades = <<>>

\* C16, as stated: for a binary market with both token ids and both quotes, a
\* price-imbalance opportunity is emitted if and only if the ask sum is
\* below 1 and the net profit is positive and meets the threshold; with an
\* ask sum of 1 or more none is emitted.
C16_ImbalanceIffAskCondition ==
  ScannedBinaryWithQuotes =>
    /\ PriceImbalanceEmitted <=> AskCondition
    /\ ScannedAskSum >= ONE => ~PriceImbalanceEmitted

\* C16, amended: the price-imbalance opportunity with trade legs is emitted
\* if and only if the ask condition holds (so never with an ask sum of 1 or
\* more); the signal-only price-imbalance opportunity (no legs) is emitted if
\* and only if the mid-price sum is below 1 and its gross percentage meets
\* the threshold, whatever the ask sum is.
C16_BuyBothIffAskCondition ==
  ScannedBinaryWithQuotes =>
    /\ BuyBothEmitted <=> AskCondition
    /\ SignalEmitted <=> MidCondition
    /\ Len(opportunities) = (IF AskCondition THEN 1 ELSE 0)
                              + (IF MidCondition THEN 1 ELSE 0)

C16_Witness ==
  /\ ScannedBinaryWithQuotes
  /\ AskCondition
  /\ BuyBothEmitted
  /\ SignalEmitted

\* The mock self-test: one binary market, YES 0.49 / 0.49, NO 0.50 / 0.50,
\* threshold 0.1 %, only PRICE_IMBALANCE enabled.
MockScan ==
  /\ scanned.called
  /\ scanned.markets = <<MockMarket>>
  /\ scanned.quotes["YES"] = BestPrices(490, 490)
  /\ scanned.quotes["NO"] = BestPrices(500, 500)
  /\ minProfitThreshold = 1
  /\ enabledStrategies = <<"PRICE_IMBALANCE">>

\* C17, as stated: the mock scan yields exactly one price-imbalance
\* opportunity, with requiredCapital 0.99 and a positive expectedProfit that
\* is the fee formula's net profit.
C17_MockScanFeeFormulaProfit ==
  MockScan =>
    /\ Len(opportunities) = 1
    /\ opportunities[1].strategy = "PRICE_IMBALANCE"
    /\ opportunities[1].requiredCapital = Money(990)
    /\ opportunities[1].expectedProfit > 0
    /\ opportunities[1].expectedProfit = FeeFormulaProfit(990)

\* C17, amended: the mock scan yields exactly one price-imbalance
\* opportunity, the signal-only one: no legs, risk HIGH, requiredCapital 0.99
\* (the mid-price sum) and expectedProfit 1 - 0.99 = 0.01 with no fee
\* deducted; the fee formula's net profit is negative there, so the buy-both
\* opportunity is not emitted.
C17_MockScanYieldsSignalOnly ==
  MockScan =>
    /\ Len(opportunities) = 1
    /\ opportunities[1].strategy = "PRICE_IMBALANCE"
    /\ opportunities[1].trades = <<>>
    /\ opportunities[1].risk = "HIGH"
    /\ opportunities[1].requiredCapital = Money(990)
    /\ opportunities[1].expectedProfit = Money(ONE) - Money(990)
    /\ FeeFormulaProfit(990) < 0

C17_Witness == MockScan /\ SignalEmitted

----------------------------------------------------------------------------
\* Claims about the mean-reversion strategy (SpecMeanReversion).

\* The mid-price (doubled) the last scan recorded for YES.
ScannedMid == scanned.quotes["YES"].bid + scanned.quotes["YES"].ask

\* The Z-score the last scan computed, after recording its sample.
ScannedZScore == getZScore(history, "YES", ScannedMid)

TimeBased == { i \in DOMAIN opportunities : opportunities[i].strategy = "TIME_BASED" }

\* 15 or more samples are stored, the latest is 0.70, the others are 0.50,
\* and the latest is the one the last scan recorded.
FifteenThenJump ==
  /\ scanned.called
  /\ scanned.quotes["YES"] = BestPrices(700, 700)
  /\ Len(history["YES"]) >= 15
  /\ \A i \in 1 .. Len(history["YES"]) :
       history["YES"][i].price = (IF i = Len(history["YES"]) THEN 1400 ELSE 1000)

\* C18: a mean-reversion opportunity is emitted only when at least 10
\* samples are stored (the one of this scan included) and |Z| >= 2; its
\* single leg is SELL when Z > 0 and BUY when Z < 0; its risk is MEDIUM when
\* |Z| > 3 and HIGH otherwise; after 15 mid-prices at 0.50 with the latest at
\* 0.70 the scan emits a SELL opportunity.
C18_MeanReversionFollowsZScore ==
  /\ \A i \in TimeBased :
       /\ scanned.called /\ scanned.quotes["YES"].ok
       /\ Len(history["YES"]) >= 10
       /\ ~ScannedZScore.null
       /\ ScoreAtLeast(ScannedZScore, 2)
       /\ Len(opportunities[i].trades) = 1
       /\ ScannedZScore.d > 0 => opportunities[i].trades[1].side = "SELL"
       /\ ScannedZScore.d < 0 => opportunities[i].trades[1].side = "BUY"
       /\ opportunities[i].risk =
            (IF ScoreAbove(ScannedZScore, 3) THEN "MEDIUM" ELSE "HIGH")
  /\ FifteenThenJump =>
       \E i \in TimeBased : opportunities[i].trades[1].side = "SELL"

\* Witness of C18: the scenario of the claim, with the SELL opportunity.
C18_Witness ==
  /\ FifteenThenJump
  /\ \E i \in TimeBased : /\ opportunities[i].trades[1].side = "SELL"
                            /\ opportunities[i].risk = "MEDIUM"

\* A BUY opportunity at |Z| = 3 exactly: risk HIGH.
C18_WitnessBuyAtThree ==
  \E i \in TimeBased : /\ opportunities[i].trades[1].side = "BUY"
                        /\ opportunities[i].risk = "HIGH"
                        /\ ScoreAtLeast(ScannedZScore, 3)

----------------------------------------------------------------------------
\* Claims about PriceHistory (SpecHistory).

\* The current prices getZScore is asked about.
CurrentPrices == HistoryPrices \cup {0, 2000}

\* The population standard deviation of the stored prices is below 0.001:
\* sum (p - mean)^2 / n < 0.001^2, with every term multiplied by n^2.
RECURSIVE SquaredDeviations(_, _, _)
SquaredDeviations(records, n, sum) ==
  IF records = <<>> THEN 0
  ELSE (n * Head(records).price - sum) * (n * Head(records).price - sum)
         + SquaredDeviations(Tail(records), n, sum)

StdDevBelowFloor(records) ==
  SquaredDeviations(records, Len(records), SumPrices(records))
    < STD_DEV_FLOOR * STD_DEV_FLOOR * Len(records) * Len(records) * Len(records)

\* C19: getZScore returns null whenever fewer than 10 samples are stored for
\* the instrument (an instrument never recorded included), and returns
\* exactly 0 whenever 10 or more are stored and their population standard
\* deviation is below 0.001, for every current price.
C19_ZScoreNullOrZero ==
  \A t \in TokenIds, currentPrice \in CurrentPrices :
    /\ Len(history[t]) < 10 => getZScore(history, t, currentPrice).null
    /\ (Len(history[t]) >= 10 /\ StdDevBelowFloor(history[t])) =>
         /\ ~getZScore(history, t, currentPrice).null
         /\ getZScore(history, t, currentPrice).d = 0

\* Witness of C19: ten samples that are not all equal, with a standard
\* deviation below 0.001, and a current price far from them.
C19_Witness ==
  /\ Len(history["YES"]) >= 10
  /\ StdDevBelowFloor(history["YES"])
  /\ \E i \in 1 .. Len(history["YES"]) : history["YES"][i].price # history["YES"][1].price
  /\ getZScore(history, "YES", 1400) = ZeroScore
  /\ getZScore(history, "NO", 1400) = NullScore

\* The sample count getStats reports for YES after record was called twice
\* with the same price, with no time passing in between.
CountAfterRecordingTwice(price) ==
  getStats(record(record(history, "YES", price, minute), "YES", price, minute),
           "YES").count

\* The stored samples of YES that are still inside the window.
LiveSamples ==
  { i \in 1 .. Len(history["YES"]) :
      history["YES"][i].timestamp > minute - HISTORY_WINDOW }

\* C20, as stated: recording the same price for the same instrument twice at
\* the same timestamp raises the sample count reported by getStats by 2.
C20_RecordingTwiceAddsTwo ==
  \A price \in HistoryPrices :
    CountAfterRecordingTwice(price) = getStats(history, "YES").count + 2

\* C20, amended: record does not deduplicate; after the two calls the count
\* is the number of stored samples still inside the 30-minute window plus 2,
\* capped at 60.  It is the previous count plus 2 when no stored sample has
\* left the window and at most 58 are stored.
C20_RecordingTwiceAddsTwoLiveSamples ==
  \A price \in HistoryPrices :
    /\ CountAfterRecordingTwice(price)
         = Min(MAX_HISTORY_SIZE, Cardinality(LiveSamples) + 2)
    /\ (Cardinality(LiveSamples) = Len(history["YES"])
          /\ Len(history["YES"]) + 2 <= MAX_HISTORY_SIZE)
         => CountAfterRecordingTwice(price) = getStats(history, "YES").count + 2

\* Witness of C20: the two newest samples are the same price at the same
\* timestamp, stored on top of older samples, and all are counted.
C20_Witness ==
  /\ Len(history["YES"]) >= 3
  /\ Len(history["YES"]) < MAX_HISTORY_SIZE
  /\ history["YES"][Len(history["YES"])] = history["YES"][Len(history["YES"]) - 1]
  /\ getStats(history, "YES").count = Len(history["YES"])
  /\ Cardinality(LiveSamples) = Len(history["YES"])

----------------------------------------------------------------------------
\* Claims about the cross-market strategy and the scan's error handling.

CrossScanned ==
  /\ scanned.called
  /\ \E i \in DOMAIN enabledStrategies : enabledStrategies[i] = "CROSS_MARKET"

\* The markets of the last scan that reach the strategies.
ScannedBinary ==
  { scanned.markets[i] : i \in { j \in DOMAIN scanned.markets :
                                  Len(scanned.markets[j].tokens) = 2 } }

Enabled(strategy) ==
  \E i \in DOMAIN enabledStrategies : enabledStrategies[i] = strategy

\* The opportunities of the list that one market got under one strategy.
OppsOf(market, strategy) ==
  SelectSeq(opportunities,
            LAMBDA o : o.marketId = market.id /\ o.strategy = strategy)

\* What detectCrossMarket does for market with the j-th market of the scan.
PairOutcome(market, j) ==
  IF parseMarketQuestion(market.question).null THEN PairDone(<<>>)
  ELSE crossMarketLoop(market, parseMarketQuestion(market.question),
                       << scanned.markets[j] >>, scanned.quotes,
                       minProfitThreshold)

\* The partners visited before detectCrossMarket ended: all of them, or
\* those up to the first one with which an exception was raised.
Visited(market) ==
  { j \in DOMAIN scanned.markets :
      \A k \in 1 .. (j - 1) : ~PairOutcome(market, k).threw }

CrossThrew(market) ==
  \E j \in DOMAIN scanned.markets : PairOutcome(market, j).threw

ImbalanceThrew(market) ==
  \/ scanned.quotes[market.tokens[1]].threw
  \/ scanned.quotes[market.tokens[2]].threw

RECURSIVE VisitedOpps(_, _)
VisitedOpps(market, j) ==
  IF j = 0 THEN <<>>
  ELSE VisitedOpps(market, j - 1)
         \o (IF j \in Visited(market) THEN PairOutcome(market, j).opps ELSE <<>>)

\* C21 as stated: when an exception was raised while a market was processed
\* under the cross-market strategy, the scan's list holds no cross-market
\* opportunity of that market.
C21_ExceptionLeavesNoOpportunity ==
  CrossScanned =>
    \A market \in ScannedBinary :
      CrossThrew(market) => OppsOf(market, "CROSS_MARKET") = <<>>

\* C21, amended: the scan completes with a list.  An exception raised while
\* a market is processed under a strategy ends that market's processing
\* under that strategy: a failed quote lookup in the price-imbalance check
\* leaves no price-imbalance opportunity of that market, and the
\* cross-market check keeps what it added for the partners visited before
\* the exception and adds nothing after it.  What every other market and
\* strategy contributes is what it contributes when scanned alone.
C21_ExceptionEndsOnlyThatMarketsStrategy ==
  scanned.called =>
    /\ \A k \in DOMAIN opportunities :
         \E market \in ScannedBinary : opportunities[k].marketId = market.id
    /\ \A market \in ScannedBinary :
         /\ Enabled("PRICE_IMBALANCE") =>
              /\ ImbalanceThrew(market) => OppsOf(market, "PRICE_IMBALANCE") = <<>>
              /\ OppsOf(market, "PRICE_IMBALANCE")
                   = detectPriceImbalance(market, scanned.quotes, minProfitThreshold)
         /\ Enabled("CROSS_MARKET") =>
              OppsOf(market, "CROSS_MARKET")
                = VisitedOpps(market, Len(scanned.markets))

\* A scan in which one market's cross-market check added an opportunity and
\* then raised an exception, while another market got an opportunity too.
C21_Witness ==
  /\ CrossScanned
  /\ \E market \in ScannedBinary :
       /\ CrossThrew(market)
       /\ OppsOf(market, "CROSS_MARKET") # <<>>
       /\ \E other \in ScannedBinary :
            /\ other.id # market.id
            /\ CrossThrew(other)
            /\ OppsOf(other, "PRICE_IMBALANCE") # <<>>

\* Pairs of different markets of the last scan.
ScannedPairs ==
  { p \in (DOMAIN scanned.markets) \X (DOMAIN scanned.markets) : p[1] < p[2] }

EmittedFor(tag, p) ==
  \E k \in DOMAIN opportunities :
    /\ opportunities[k].id = tag
    /\ {opportunities[k].marketId, opportunities[k].otherId}
         = {scanned.markets[p[1]].id, scanned.markets[p[2]].id}

\* Both markets of the pair have a first token with a quote.
Quoted(p) ==
  \A i \in {p[1], p[2]} :
    /\ scanned.markets[i].tokens # <<>>
    /\ getBestPrices(scanned.quotes, scanned.markets[i].tokens[1]).ok

\* The doubled mid-price probability of the i-th market of the scan.
Prob(i) ==
  getBestPrices(scanned.quotes, scanned.markets[i].tokens[1]).bid
    + getBestPrices(scanned.quotes, scanned.markets[i].tokens[1]).ask

InfoOf(i) == parseMarketQuestion(scanned.markets[i].question)

Nested(p) ==
  /\ ~InfoOf(p[1]).null /\ ~InfoOf(p[2]).null
  /\ IsNestedPair(InfoOf(p[1]), InfoOf(p[2]))

\* The probability of the higher-threshold market minus that of the
\* lower-threshold market, doubled.
NestedGap(p) ==
  IF InfoOf(p[1]).threshold < InfoOf(p[2]).threshold
    THEN Prob(p[2]) - Prob(p[1])
    ELSE Prob(p[1]) - Prob(p[2])

\* C23: for two markets with the same asset and direction and different
\* thresholds, a nested-consistency opportunity is in the list exactly when
\* the higher-threshold market's probability exceeds the other's by more
\* than 0.02 and the gap in percent is at least minProfitThreshold; every
\* cross-market opportunity has no trades and HIGH risk.
C23_NestedEmittedIffGap ==
  CrossScanned =>
    /\ \A p \in ScannedPairs :
         Nested(p) =>
           (EmittedFor("crossmarket_nested", p)
              <=> /\ Quoted(p)
                  /\ NestedGap(p) > NESTED_TOLERANCE
                  /\ NestedGap(p) * 10 >= minProfitThreshold * 20)
    /\ \A k \in DOMAIN opportunities :
         opportunities[k].strategy = "CROSS_MARKET" =>
           opportunities[k].trades = <<>> /\ opportunities[k].risk = "HIGH"

SimilarPair(p) ==
  IsSimilar(calculateSimilarity(scanned.markets[p[1]].question,
                                scanned.markets[p[2]].question))

SameCategory(p) ==
  scanned.markets[p[1]].category = scanned.markets[p[2]].category

\* C24: a price-divergence opportunity is in the list only for two markets
\* of one category whose question similarity is strictly between 0.7 and
\* 0.95, and it is there for every such pair whose probability gap in
\* percent exceeds twice minProfitThreshold, whether or not the questions
\* parse.
C24_SimilarEmittedForSameCategory ==
  CrossScanned =>
    \A p \in ScannedPairs :
      /\ EmittedFor("crossmarket_similar", p) => SameCategory(p) /\ SimilarPair(p)
      /\ (/\ SameCategory(p) /\ SimilarPair(p) /\ Quoted(p)
          /\ Abs(Prob(p[1]) - Prob(p[2])) * 10 > 2 * minProfitThreshold * 20)
           => EmittedFor("crossmarket_similar", p)

----------------------------------------------------------------------------
\* Claims about the opportunity record.

RECURSIVE GCD(_, _)
GCD(a, b) == IF b = 0 THEN a ELSE GCD(b, a % b)

\* num1 / den1 = num2 / den2, for positive denominators, compared in lowest
\* terms.
SameFraction(num1, den1, num2, den2) ==
  /\ num1 \div GCD(Abs(num1), den1) = num2 \div GCD(Abs(num2), den2)
  /\ den1 \div GCD(Abs(num1), den1) = den2 \div GCD(Abs(num2), den2)

\* C25: every opportunity of the list that has trades satisfies
\* profitPercentage = expectedProfit / requiredCapital * 100.
C25_PercentageIsProfitOverCapital ==
  \A k \in DOMAIN opportunities :
    opportunities[k].trades # <<>> =>
      SameFraction(opportunities[k].pctNum, opportunities[k].pctDen,
                   100 * opportunities[k].expectedProfit,
                   opportunities[k].profitDen * opportunities[k].requiredCapital)

----------------------------------------------------------------------------
\* Claims about the order-book cache.

\* Reader r enters getOrderBook in this step.
Enters(r) == readers[r].pc = "idle" /\ readers'[r].pc # "idle"

\* Reader r's fetch ends in this step.
Settles(r) == readers[r].pc = "fetching" /\ readers'[r].pc # "fetching"

Younger(cached) == cached.present /\ cacheNow - cached.timestamp < CACHE_TTL

\* C22: a call of getOrderBook returns the token's cached data without a
\* fetch exactly when the entry is younger than 2 s at the call, and starts
\* a fetch otherwise, whatever other readers are doing; a fetch that ends
\* with 404 stores "no data" with the current time and returns null, one
\* that ends with 429, a timeout or another error leaves the cache as it is
\* and returns null, and no step but a 200 or 404 changes the cache.
C22_CacheServesOnlyYoungEntries ==
  [][\A r \in Readers :
       /\ Enters(r) =>
            /\ orderBookCache' = orderBookCache
            /\ IF Younger(orderBookCache[readers'[r].tokenId])
                 THEN /\ readers'[r].pc = "returned"
                      /\ ~readers'[r].fetched
                      /\ readers'[r].result = orderBookCache[readers'[r].tokenId].data
                 ELSE /\ readers'[r].pc = "fetching"
                      /\ readers'[r].fetched
       /\ Settles(r) =>
            /\ readers'[r].response = "404" =>
                 /\ orderBookCache'[readers[r].tokenId] = CacheEntry(NoData, cacheNow)
                 /\ readers'[r].pc = "returned" /\ readers'[r].result = NoData
            /\ readers'[r].response \notin {"200", "404"} =>
                 /\ orderBookCache' = orderBookCache
                 /\ readers'[r].pc \in {"returned", "backoff"}
                 /\ readers'[r].pc = "returned" => readers'[r].result = NoData
       /\ (readers[r].pc = "backoff" /\ readers'[r].pc # "backoff") =>
            /\ orderBookCache' = orderBookCache
            /\ readers'[r].pc = "returned" /\ readers'[r].result = NoData
  ]_vars

\* Two readers are fetching the same token at once, whose entry is a cached
\* 404 that was exactly 2 s old when one of them looked and older when the
\* other did.
C22_Witness ==
  \E r1, r2 \in Readers :
    /\ r1 # r2
    /\ readers[r1].pc = "fetching" /\ readers[r2].pc = "fetching"
    /\ readers[r1].tokenId = readers[r2].tokenId
    /\ orderBookCache[readers[r1].tokenId] = CacheEntry(NoData, readers[r1].at - CACHE_TTL)
    /\ readers[r2].at > readers[r1].at

----------------------------------------------------------------------------
\* More claims about executeTrades.

\* Every leg was posted and the exchange reported a status other than
\* FAILED for each.
AllPostedNoneFailed ==
  /\ Len(trades) > 0
  /\ \A i \in Legs : ~DepthFails(i)
  /\ \A i \in Legs : Reported(i) /\ ReportedStatus(i) # "FAILED"

\* C26: when executeTrades has returned, the result list is as long as the
\* batch; an empty batch gave an empty list and no exchange call; and when
\* every leg passed pre-validation and every posted order reported a status
\* other than FAILED, no cancellation was requested and leg i's result
\* carries leg i's order id and mapped status.
C26_OneResultPerLeg ==
  Returned =>
    /\ Len(results) = Len(trades)
    /\ Len(trades) = 0 =>
         /\ results = <<>>
         /\ books = <<>> /\ createCalls = 0 /\ postCalls = 0
    /\ AllPostedNoneFailed =>
         /\ \A i \in Legs : cancelReqs[i] = 0
         /\ \A i \in Legs :
              /\ results[i].orderId = posts[i].orderID
              /\ results[i].status = ReportedStatus(i)

\* The batch was rolled back: every leg was posted and answered, and some
\* leg reported FAILED.
RolledBack ==
  /\ Returned
  /\ Len(trades) > 0
  /\ \A i \in Legs : Reported(i)
  /\ \E i \in Legs : ReportedStatus(i) = "FAILED"

\* C27: in a rolled-back batch every leg the exchange accepted, a leg
\* reported PARTIALLY_FILLED included, got a cancellation request, and no
\* leg reported CANCELLED or FAILED got one.
C27_RollbackCancelsEveryAcceptedLeg ==
  RolledBack =>
    \A i \in Legs :
      /\ posts[i].accepted => cancelReqs[i] >= 1
      /\ ReportedStatus(i) \in {"CANCELLED", "FAILED"} => cancelReqs[i] = 0

\* C28: phases of a batch.  createOrder has been called only if every leg's
\* order book covers the leg at its limit price; postOrder has been called
\* only if createOrder returned a handle for every leg; and if some handle
\* is null nothing has been posted.
C28_PhasesInOrder ==
  /\ createCalls > 0 => \A i \in Legs : i \in DOMAIN books /\ ~DepthFails(i)
  /\ postCalls > 0 => \A i \in Legs : orders[i] = "handle"
  /\ (\E i \in Legs : orders[i] = "null") => postCalls = 0

----------------------------------------------------------------------------
\* More claims about the controller.

\* Every leg of the opportunity being processed has a FILLED result.
EveryLegFilled ==
  \A i \in 1 .. Len(cur.trades) :
    i \in DOMAIN results /\ results[i].status = "FILLED"

\* C29: the controller calls executeTrades only for an opportunity that
\* evaluateOpportunity has just approved with the balance fetched for it; a
\* rejection ends the processing without recordTrade; and after executeTrades
\* has returned there is exactly one recordTrade for the opportunity, with
\* (expectedProfit, true) if every leg's status is FILLED and with
\* (0, false) otherwise.
C29_ExecuteAfterApprovalRecordOnce ==
  [][/\ execCalls' > execCalls =>
          /\ execCalls = 0 /\ recordCalls = 0
          /\ lastEval.called
          /\ lastEval.opportunity = cur /\ lastEval.usdc = balance
          /\ lastEval.result = evaluateOpportunity(cur, balance)
          /\ lastEval.result.approved
          /\ trades' = cur.trades
     /\ (bpc = "evaluate" /\ ~evaluateOpportunity(cur, balance).approved) =>
          bpc' = "idle" /\ execCalls' = 0 /\ recordCalls' = 0
     /\ recordCalls' > recordCalls =>
          /\ execCalls = 1 /\ recordCalls = 0 /\ recordCalls' = 1
          /\ Returned /\ trades = cur.trades
          /\ bpc' = "idle"
          /\ stats' = recordTradeStats(IF EveryLegFilled THEN cur.expectedProfit ELSE 0,
                                       EveryLegFilled)
          /\ dailyPnL' = IF EveryLegFilled THEN dailyPnL + cur.expectedProfit
                                           ELSE dailyPnL
     /\ (bpc # "idle" /\ bpc' = "idle") => recordCalls' = execCalls'
  ]_vars

\* The controller has processed two opportunities: one batch was FILLED in
\* every leg and recorded as a success, one was not and recorded as a
\* failure.
C29_Witness ==
  /\ Processing /\ bpc = "idle"
  /\ execCalls = 1 /\ recordCalls = 1
  /\ stats.successfulTrades = 1 /\ stats.failedTrades = 1
  /\ stats.totalProfit = cur.expectedProfit

----------------------------------------------------------------------------
\* More claims about PriceHistory.

\* The window of an instrument: at most MAX_HISTORY_SIZE samples, in the
\* order of their timestamps, none HISTORY_WINDOW or more older than the
\* newest one.
WindowOk(records) ==
  /\ Len(records) <= MAX_HISTORY_SIZE
  /\ \A i \in 1 .. (Len(records) - 1) :
       records[i].timestamp <= records[i + 1].timestamp
  /\ \A i \in DOMAIN records :
       records[i].timestamp > records[Len(records)].timestamp - HISTORY_WINDOW

\* kept is the longest tail of all that has at most MAX_HISTORY_SIZE samples,
\* each younger than HISTORY_WINDOW at time t.
MostRecent(kept, all, t) ==
  LET dropped == Len(all) - Len(kept)
  IN  /\ dropped >= 0
      /\ kept = SubSeq(all, dropped + 1, Len(all))
      /\ \A i \in DOMAIN kept : kept[i].timestamp > t - HISTORY_WINDOW
      /\ \/ dropped = 0
         \/ Len(kept) = MAX_HISTORY_SIZE
         \/ all[dropped].timestamp <= t - HISTORY_WINDOW

\* C30: after every record the instrument's window holds at most 60
\* samples, all less than 30 minutes older than the sample just recorded,
\* and they are the most recent samples in insertion order; a step that is
\* not a record leaves the window as it is, and what the read operations
\* see is the stored window, expired samples included.
C30_WindowKeepsMostRecent ==
  [][\A tokenId \in TokenIds :
       /\ WindowOk(history'[tokenId])
       /\ history'[tokenId] # history[tokenId] =>
            /\ minute' = minute
            /\ \E price \in HistoryPrices :
                 MostRecent(history'[tokenId],
                            Append(history[tokenId], Sample(price, minute)), minute)
       /\ minute' # minute => history' = history
       /\ getStats(history', tokenId).count = Len(history'[tokenId])
  ]_vars

\* A record at minute 30 has left a full window whose oldest sample is of
\* minute 15: whatever was recorded at minute 0 is gone.
C30_Witness ==
  /\ Len(history["YES"]) = MAX_HISTORY_SIZE
  /\ history["YES"][1].timestamp = 15
  /\ history["YES"][MAX_HISTORY_SIZE].timestamp = 30
  /\ minute = 30

\* C31: getActiveMarkets makes at most three fetch attempts, waits 1000 ms
\* after the first failure and 1500 ms after the second and not after the
\* third, makes no further attempt once one has succeeded, returns the empty
\* list after three failures, and every call returns.
FetchAttemptsBounded ==
  /\ marketFetch.attempts <= 3
  /\ marketFetch.waits \in {<<>>, <<1000>>, <<1000, 1500>>}
  /\ marketFetch.pc \in {"fetching", "returned"} =>
       Len(marketFetch.waits) = marketFetch.attempts - 1
  /\ marketFetch.pc = "waiting" => Len(marketFetch.waits) = marketFetch.attempts
  /\ (marketFetch.pc = "returned" /\ marketFetch.last = "failed") =>
       (marketFetch.attempts = 3 /\ marketFetch.result = <<>>)

FetchStopsWhenReturned ==
  (marketFetch.pc = "returned" /\ marketFetch'.calls = marketFetch.calls)
    => marketFetch' = marketFetch

C31_FetchRetriesAndTerminates ==
  /\ []FetchAttemptsBounded
  /\ [][FetchStopsWhenReturned]_vars
  /\ (marketFetch.pc \in {"fetching", "waiting"}) ~> (marketFetch.pc = "returned")

C31_Witness ==
  /\ marketFetch.pc = "returned"
  /\ marketFetch.last = "failed"
  /\ marketFetch.waits = <<1000, 1500>>
  /\ marketFetch.calls = 2

\* C32 (as stated): the limit price of a validated leg is price x (1 +
\* maxSlippage) for BUY and price x (1 - maxSlippage) for SELL, brought into
\* [0.001, 0.999], whatever the price of the leg is.
ProductLimit(trade) ==
  LET product == IF trade.side = "BUY"
                   THEN (trade.price * (100 + maxSlippage)) \div 100
                   ELSE (trade.price * (100 - maxSlippage)) \div 100
  IN  IF trade.price = NaN THEN 100
      ELSE IF product < 100 THEN 100
      ELSE IF product > 99900 THEN 99900
      ELSE product

C32_LimitIsClampedProduct ==
  \A i \in 1 .. Len(limitPrices) : limitPrices[i] = ProductLimit(trades[i])

\* C32 (amended): the price of the leg is first brought into [0.001, 0.999]
\* (a non-finite price becomes 0 instead), then multiplied by
\* (1 + maxSlippage) for BUY and (1 - maxSlippage) for SELL and brought into
\* [0.001, 0.999]; a leg passes the depth check exactly when its book is present and
\* the ask levels at or below the limit (BUY), or the bid levels at or above
\* it (SELL), hold at least the amount of the leg.
InRange(price) ==
  IF price < 100 THEN 100
  ELSE IF price > 99900 THEN 99900
  ELSE price

ClampedBaseLimit(trade) ==
  LET base == IF trade.price = NaN THEN 0 ELSE InRange(trade.price)
  IN  IF trade.side = "BUY"
        THEN InRange((base * (100 + maxSlippage)) \div 100)
        ELSE InRange((base * (100 - maxSlippage)) \div 100)

RECURSIVE DepthWithin(_, _, _, _)
DepthWithin(levels, n, side, limit) ==
  IF n = 0 THEN 0
  ELSE DepthWithin(levels, n - 1, side, limit)
       + (IF (side = "BUY" /\ levels[n].price <= limit)
             \/ (side = "SELL" /\ levels[n].price >= limit)
            THEN levels[n].size ELSE 0)

HasDepth(trade, book) ==
  /\ book.present
  /\ LET levels == IF trade.side = "BUY" THEN book.asks ELSE book.bids
     IN  DepthWithin(levels, Len(levels), trade.side, ClampedBaseLimit(trade))
           >= trade.amount

LimitsInRange ==
  \A i \in 1 .. Len(limitPrices) :
    /\ limitPrices[i] = ClampedBaseLimit(trades[i])
    /\ limitPrices[i] >= 100
    /\ limitPrices[i] <= 99900

LegPassesIffDepth ==
  (epc = "precheck" /\ Len(books') = Len(books) + 1) =>
    LET i == Len(books')
    IN  /\ (Len(limitPrices') = i) <=> HasDepth(trades[i], books'[i])
        /\ (Len(limitPrices') # i) => epc' = "returned"

C32_LimitClampsPriceThenProduct ==
  /\ []LimitsInRange
  /\ [][LegPassesIffDepth]_vars

\* A leg priced above 1 and a leg of non-finite price have both passed the
\* depth check, each in its call.
C32_Witness ==
  /\ Len(limitPrices) = 1
  /\ trades[1].price \in {NaN, 150000}
  /\ trades[1].side = "SELL"
  /\ epc = "create"

\* C33: the emergency stop is not permanent: a scan that reaches its checks
\* while shouldEmergencyStop holds and 24 hours have elapsed since the last
\* daily reset sets the daily P&L back to 0 and goes on to the detection.
ScanReachesChecks ==
  \/ lastStop' # lastStop /\ lastStop'.called
  \/ \E p \in 1 .. MaxPasses : passes[p].pc # "detect" /\ passes'[p].pc = "detect"

DayElapsed == now - dailyStartTime >= 24

StoppedScanResumesAfterTheDay ==
  (shouldEmergencyStop /\ DayElapsed /\ ScanReachesChecks) =>
    /\ dailyPnL' = 0
    /\ ~shouldEmergencyStop'
    /\ \E p \in 1 .. MaxPasses : passes'[p].pc = "detect"

C33_EmergencyStopEndsWithTheDay == [][StoppedScanResumesAfterTheDay]_vars

\* What the scan does instead: once shouldEmergencyStop holds it holds for
\* good, since the scan returns before resetDailyStats.
EmergencyStopStays == [][shouldEmergencyStop => shouldEmergencyStop']_vars

\* C34: when the controller records an executed batch as failed
\* (recordTrade(0, false)), no leg of the batch that the executor reported
\* PENDING or PARTIALLY_FILLED is still open at the exchange.
RecordsFailure == stats'.failedTrades = stats.failedTrades + 1

OpenLegs ==
  { i \in 1 .. Len(results) :
      /\ results[i].status \in {"PENDING", "PARTIALLY_FILLED"}
      /\ exchange[i] = "open" }

C34_FailedBatchLeavesNoOpenOrder ==
  [][(bpc = "executing" /\ RecordsFailure) => OpenLegs = {}]_vars

\* C35: when evaluateOpportunity approves with adjustedSize capped at
\* maxPositionSize, the legs the controller then has accepted by the exchange
\* cost no more than adjustedSize (the sum of price x amount over them).
PostedLegs == { i \in 1 .. Len(posts) : posts[i].accepted }

RECURSIVE CostOf(_)
CostOf(legs) ==
  IF legs = {} THEN 0
  ELSE LET i == CHOOSE j \in legs : TRUE
       IN  trades[i].price * trades[i].amount + CostOf(legs \ {i})

CappedApproval ==
  /\ bpc = "executing"
  /\ cfg.enableRiskManagement
  /\ evaluation.approved
  /\ cur.requiredCapital > cfg.maxPositionSize
  /\ evaluation.adjustedSize = cfg.maxPositionSize

C35_SubmittedWithinAdjustedSize ==
  CappedApproval => CostOf(PostedLegs) <= evaluation.adjustedSize

\* C36: with risk management enabled and minPositionSize at least one
\* dollar (and at most maxPositionSize), evaluateOpportunity approves no
\* price-imbalance opportunity of the detector: the capital of such an
\* opportunity is below one dollar.
EvaluatedImbalance ==
  /\ lastEval.called
  /\ lastEval.opportunity.strategy = "PRICE_IMBALANCE"
  /\ cfg.enableRiskManagement
  /\ cfg.minPositionSize >= Money(ONE)

C36_ImbalanceNeverApprovedAboveOneDollarMinimum ==
  EvaluatedImbalance =>
    /\ lastEval.opportunity.requiredCapital < Money(ONE)
    /\ ~lastEval.result.approved

\* A buy-both opportunity that the balance covers is turned down for its size.
C36_Witness ==
  /\ EvaluatedImbalance
  /\ lastEval.opportunity.trades # <<>>
  /\ lastEval.usdc >= lastEval.opportunity.requiredCapital
  /\ lastEval.result = Rejected("BELOW_MIN_SIZE")

\* C37: no order is created or posted through the executor unless
\* authenticateForTrading has succeeded before (isReadyForTrading is true).
C37_OrdersOnlyWhenAuthenticated ==
  (createCalls > 0 \/ postCalls > 0) => isReadyForTrading

\* The other half of C37: a call on an authenticated executor returns true
\* and changes nothing else, and a failed attempt leaves it unauthenticated.
AuthIdempotentAndFailureClears ==
  /\ [][(auth.isAuthenticated /\ auth'.calls = auth.calls + 1) =>
          auth' = [auth EXCEPT !.calls = @ + 1, !.last = "true"]]_vars
  /\ [][(auth.pc = "deriving" /\ auth'.last = "false" /\ auth'.pc = "idle") =>
          ~auth'.isAuthenticated]_vars

\* C38: in one scan with CROSS_MARKET enabled, the list holds at most one
\* nested-consistency opportunity per unordered pair of markets.
NestedFor(p) ==
  { k \in DOMAIN opportunities :
      /\ opportunities[k].id = "crossmarket_nested"
      /\ {opportunities[k].marketId, opportunities[k].otherId}
           = {scanned.markets[p[1]].id, scanned.markets[p[2]].id} }

C38_OneNestedOpportunityPerPair ==
  CrossScanned => \A p \in ScannedPairs : Cardinality(NestedFor(p)) <= 1

\* C39: the scan guard is lowered on every way out of a scan, so it is
\* raised exactly while a pass is in flight; while the bot is running, a
\* timer tick that finds no pass in flight starts a scan (which is then in
\* flight or has returned for the emergency stop); once the bot has been
\* stopped no pass starts.
Stopped == ~isRunning /\ lastTick # "none"

GuardFollowsPass == isScanning <=> InFlightPasses # {}

TickStartsScan ==
  (Tick /\ isRunning /\ InFlightPasses = {}) =>
    /\ lastTick' = "started"
    /\ \/ \E p \in 1 .. MaxPasses : passes'[p].pc \in {"refresh", "detect"}
       \/ lastStop'.called /\ lastStop'.result /\ ~isScanning'

NoScanOnceStopped ==
  Stopped => /\ \A p \in 1 .. MaxPasses : passes[p].pc = "none" => passes'[p].pc = "none"
             /\ lastTick' # "started" \/ lastTick = "started"
             /\ ~isRunning'

C39_GuardReleasedOnEveryExit ==
  /\ []GuardFollowsPass
  /\ [][TickStartsScan]_vars
  /\ [][NoScanOnceStopped]_vars

\* A scan has returned for the emergency stop with the guard lowered, and
\* the bot is still running.
C39_Witness ==
  /\ isRunning
  /\ lastTick = "started"
  /\ lastStop.called
  /\ lastStop.result
  /\ ~isScanning
  /\ InFlightPasses = {}

\* C40: in the running controller the daily P&L accumulator is never
\* negative: it changes only when a batch whose results are all FILLED is
\* recorded, by the expected profit of the opportunity, which is not
\* negative, and when the daily reset sets it to 0; so the daily-loss cutoff
\* and the emergency stop are reached only after a batch reported FILLED.
DailyPnLChange ==
  dailyPnL' # dailyPnL =>
    \/ /\ bpc = "executing" /\ bpc' = "idle"
       /\ allSuccess
       /\ cur.expectedProfit >= 0
       /\ dailyPnL' = dailyPnL + cur.expectedProfit
       /\ stats'.successfulTrades = stats.successfulTrades + 1
    \/ /\ now - dailyStartTime >= 24
       /\ dailyPnL' = 0
       /\ dailyStartTime' = now

CutoffOnlyByProfit ==
  (shouldEmergencyStop \/ Abs(dailyPnL) >= cfg.dailyMaxLoss) =>
    /\ dailyPnL > 0
    /\ dailyPnL <= stats.totalProfit
    /\ stats.successfulTrades > 0

C40_DailyPnLNeverNegative ==
  /\ [](dailyPnL >= 0)
  /\ []CutoffOnlyByProfit
  /\ [][DailyPnLChange]_vars

\* The emergency stop holds after one batch was recorded as failed and one
\* as filled.
C40_Witness ==
  /\ shouldEmergencyStop
  /\ stats.failedTrades > 0
  /\ stats.successfulTrades > 0
  /\ dailyPnL = stats.totalProfit

====
